---------------------------- MODULE Spec2Model ----------------------------
(***************************************************************************)
(* Model of the SmartPatch base station (src/Basestation): the shared      *)
(* mailboxes of Globals.py, the mapping controller (Mapping.py), the BLE   *)
(* connection workers and janitor (Ble.py), the DSP tick                   *)
(* (DataProcessing.py) and the sinks (PublishToThingsboard.py,             *)
(* SaveLocally.py).                                                        *)
(*                                                                         *)
(* Python dicts keep insertion order, and the code depends on it           *)
(* (get_key_from_value returns keys[0]); a dict is therefore a sequence of *)
(* <<key, value>> pairs with unique keys.                                  *)
(***************************************************************************)
EXTENDS Integers, Sequences, FiniteSets, TLC

(***************************************************************************)
(* Bounds of the model.                                                    *)
(***************************************************************************)
NumPatches == 2          \* patches the BLE supervisor model knows
NumMapPatches == 3       \* patches the mapping-controller model knows
NumPatients == 2
NumWorkers == 2          \* connection_task instances (Settings.DEVICE_MAXIMUM in the code)
MaxSamples == 3          \* notifications delivered in one run of the data model

PatchIds == {"X" \o ToString(i) : i \in 1..NumPatches}
MapPatchIds == {"X" \o ToString(i) : i \in 1..NumMapPatches}
PatientIds == {"P" \o ToString(i) : i \in 1..NumPatients}
Workers == 1..NumWorkers

(***************************************************************************)
(* Python dict operations.                                                 *)
(***************************************************************************)
DKeys(d) == {d[i][1] : i \in DOMAIN d}
DValues(d) == {d[i][2] : i \in DOMAIN d}
DHas(d, k) == k \in DKeys(d)
DGet(d, k) == d[CHOOSE i \in DOMAIN d : d[i][1] = k][2]
DSet(d, k, v) ==
    IF DHas(d, k)
    THEN [i \in DOMAIN d |-> IF d[i][1] = k THEN <<k, v>> ELSE d[i]]
    ELSE Append(d, <<k, v>>)
DIsNot(e, k) == e[1] # k
DDel(d, k) == SelectSeq(d, LAMBDA e : DIsNot(e, k))
DKeyList(d) == [i \in DOMAIN d |-> d[i][1]]

\* the value under k, or "absent": the map a dict stands for
Lookup(d, k) == IF DHas(d, k) THEN DGet(d, k) ELSE "absent"

\* every dict with keys from K and values from V (any insertion order)
RECURSIVE DictsOfLen(_, _, _)
DictsOfLen(K, V, n) ==
    IF n = 0 THEN {<<>>}
    ELSE UNION {{Append(d, <<k, v>>) : k \in K \ DKeys(d), v \in V} :
                d \in DictsOfLen(K, V, n - 1)}
Dicts(K, V) == UNION {DictsOfLen(K, V, n) : n \in 0..Cardinality(K)}

(***************************************************************************)
(* State.                                                                  *)
(***************************************************************************)
VARIABLES
    patient_mapping,       \* Globals.patient_mapping: dict PatchId -> PatientId
    mac_address_update,    \* Globals.mac_address_update: dict PatchId -> "add" | "remove"
    lastStep,              \* the mapping step just taken, with the mailboxes it started from
    connected_devices,     \* Globals.connected_devices: dict PatchId -> firmware version
    wpc,                   \* connection_task w: where it is suspended
    waddr,                 \* connection_task w: its local variable address
    wlink,                 \* connection_task w: device.is_connected
    wremove,               \* connection_task w: its local variable remove_request
    script,                \* control-plane events of scenario S1 published so far
    unprocessed_data,      \* Globals.unprocessed_data: dict PatchId -> list of raw samples
    processed_data,        \* Globals.processed_data: dict PatchId -> list of datapoints
    unprocessed_data_lock, \* Globals.unprocessed_data_lock: the thread holding it, or "none"
    PROCESS_DATA,          \* Settings.PROCESS_DATA, fixed by configure_basestation
    dsp_pc,                \* the processing thread: where it is in its tick
    dsp_i,                 \* data_processing: position of `for address in unprocessed_data`
    current_data,          \* no_data_processing: its local variable current_data
    delivered,             \* notifications delivered so far (the next timestamp)
    handed,                \* per raw sample, the number of DSP ticks that read it
    released,              \* unprocessed_data as it was when the DSP last released its guard
    holder,                \* per lock of Globals.py, the thread holding it, or "none"
    tpc,                   \* per thread, the operation it runs and the next instruction
    aux                    \* the state of the stages modelled on their own, see AuxAtRest

mapVars == <<patient_mapping, mac_address_update, lastStep>>
bleVars == <<connected_devices, wpc, waddr, wlink, wremove>>
dataVars == <<unprocessed_data, processed_data, unprocessed_data_lock, PROCESS_DATA,
              dsp_pc, dsp_i, current_data, delivered, handed, released>>
lockVars == <<holder, tpc>>
restVars == <<script, dataVars, lockVars, aux>>
vars == <<mapVars, bleVars, script, dataVars, lockVars, aux>>

NoStep == [op |-> "none"]

\* the locks of Globals.py and the threads started by Basestation.main
Locks == {"connected_devices_lock", "mac_address_update_lock", "patient_mapping_lock",
          "config_update_lock", "unprocessed_data_lock", "processed_data_lock"}
Threads == {"Mapping_Thread", "BLE_Thread", "Processing_Thread", "Publishing_Thread",
            "Raw_Data_Thread"}
Idle == [op |-> "idle", i |-> 0]

(***************************************************************************)
(* Mapping controller (Mapping.py).                                        *)
(***************************************************************************)
\* connect_update, "gather previous connections": the keys bound to the
\* patient, in dict order
ToDelete(pm, patient_name) ==
    LET IsBound(e) == e[2] = patient_name
    IN  DKeyList(SelectSeq(pm, IsBound))

\* connect_update, "delete previous connections"
RECURSIVE DeletePrevious(_, _, _)
DeletePrevious(to_delete, pm, mau) ==
    IF to_delete = <<>> THEN [pm |-> pm, mau |-> mau]
    ELSE DeletePrevious(Tail(to_delete),
                        DDel(pm, Head(to_delete)),
                        DSet(mau, Head(to_delete), "remove"))

\* mutants of connect_update: no eviction of the patient's previous patches;
\* eviction without the Disconnect intents
connect_update_keeps_previous(patient_name, mac_address, pm, mau) ==
    [pm |-> DSet(pm, mac_address, patient_name),
     mau |-> DSet(mau, mac_address, "add")]
connect_update_silent_eviction(patient_name, mac_address, pm, mau) ==
    LET cleaned == DeletePrevious(ToDelete(pm, patient_name), pm, mau)
    IN  [pm |-> DSet(cleaned.pm, mac_address, patient_name),
         mau |-> DSet(mau, mac_address, "add")]

\* connect_update: the mailboxes after the event
connect_update(patient_name, mac_address, pm, mau) ==
    LET cleaned == IF patient_name \in DValues(pm)
                   THEN DeletePrevious(ToDelete(pm, patient_name), pm, mau)
                   ELSE [pm |-> pm, mau |-> mau]
    IN  [pm |-> DSet(cleaned.pm, mac_address, patient_name),
         mau |-> DSet(cleaned.mau, mac_address, "add")]

\* mutant of disconnect_update's first block: the intent is posted for the
\* literal "disconnected" too
disconnect_update_intent_always(mac_address, mau) ==
    DSet(mau, mac_address, "remove")

\* disconnect_update, first block: post the Disconnect intent
disconnect_update_intent(mac_address, mau) ==
    IF mac_address # "disconnected" THEN DSet(mau, mac_address, "remove") ELSE mau

\* disconnect_update, second block: drop the binding
disconnect_update_mapping(mac_address, pm) ==
    IF DHas(pm, mac_address) THEN DDel(pm, mac_address) ELSE pm

\* patient_mapping_loop, start-up: every patch of the fetched roster gets a
\* Connect intent, in the roster's order
RECURSIVE SeedIntents(_, _)
SeedIntents(keys, mau) ==
    IF keys = <<>> THEN mau
    ELSE SeedIntents(Tail(keys), DSet(mau, Head(keys), "add"))

\* on_update with topic "Connected" and content {patient_name: mac_address}
OnConnected(patient_name, mac_address) ==
    /\ LET after == connect_update(patient_name, mac_address,
                                   patient_mapping, mac_address_update)
       IN  /\ patient_mapping' = after.pm
           /\ mac_address_update' = after.mau

\* on_update with topic "Disconnected": disconnect_update.  Its two blocks
\* are one step: the second writes patient_mapping only, which no other
\* thread writes and the BLE supervisor never reads.
OnDisconnected(mac_address) ==
    /\ mac_address_update' = disconnect_update_intent(mac_address, mac_address_update)
    /\ patient_mapping' = disconnect_update_mapping(mac_address, patient_mapping)

\* the step just taken by the mapping thread, for the claims about one handler
Observed(op, patient_name, mac_address) ==
    lastStep' = [op |-> op, patient |-> patient_name, patch |-> mac_address,
                 pm0 |-> patient_mapping, mau0 |-> mac_address_update]

(***************************************************************************)
(* The mapping controller on its own: the roster fetched at start-up is    *)
(* any dict, the control plane sends any sequence of events, and the BLE   *)
(* supervisor is reduced to what it does to mac_address_update.            *)
(***************************************************************************)
\* the data path before the first notification, in either processing mode
DataAtRest ==
    /\ unprocessed_data = <<>>
    /\ processed_data = <<>>
    /\ unprocessed_data_lock = "none"
    /\ PROCESS_DATA = TRUE
    /\ dsp_pc = "check"
    /\ dsp_i = 1
    /\ current_data = <<>>
    /\ delivered = 0
    /\ handed = [s \in 1..MaxSamples |-> 0]
    /\ released = [valid |-> FALSE, ud |-> <<>>]

\* the stages modelled on their own, before they have done anything
AuxAtRest ==
    [\* the notification a patch sends: handle, payload, whether handled
     notification |-> [sender |-> 0, data |-> <<>>, handled |-> TRUE],
     \* lengths of the rolling windows the DSP keeps for one patch (local_ppg, ...)
     window |-> [ppg |-> 0, imu_raw |-> 0, imu_converted |-> 0, temp |-> 0,
                 voltage |-> 0, activity |-> 0, HR |-> 0, SPO2 |-> 0],
     \* how the last iteration of the DSP for that patch ended, and how many there were
     dsp_state |-> "idle",
     ticks |-> 0,
     \* the raw imu window of the patch row by row, and its activity levels
     local_imu_raw |-> <<>>,
     local_activity_level |-> <<>>,
     \* the voltage window (mV), the percentage computed last and the one emitted last
     local_voltage |-> <<>>,
     local_battery_percentage |-> <<>>,
     battery_emitted |-> <<>>,
     \* the ratio R of the ppg analysis in hundredths, and the SpO2 values stored
     ratio |-> 0,
     local_SPO2 |-> <<>>,
     \* a sink loop: where it stands, the batch it took, the next key of it
     sink_pc |-> "check",
     local_data |-> <<>>,
     sink_i |-> 1,
     \* the csv files (per patch the rows written) and the telemetry sent
     files |-> <<>>,
     published |-> <<>>,
     \* per Datapoint emitted, the patch it is of
     origin |-> <<>>,
     \* Globals.smartpatch_config_update, and per worker where it stands in
     \* search_config_update, the byte it read and the byte it wrote last
     smartpatch_config_update |-> 0,
     cfg_pc |-> [w \in Workers |-> "loop"],
     new_config |-> [w \in Workers |-> 0],
     pushed |-> [w \in Workers |-> 0],
     \* the workers in their 30 s sleep in the order they began it, the resets
     \* to 0 since the byte was published last, the bytes published so far
     config_window |-> <<>>,
     config_resets |-> 0,
     config_published |-> 0,
     \* per patch the lengths of its rolling windows, and for the running tick
     \* of data_processing, in order, the patches done and how their pipeline ended
     windows |-> [x \in PatchIds |-> [ppg |-> 0, imu_raw |-> 0, imu_converted |-> 0,
                                      temp |-> 0, voltage |-> 0, activity |-> 0,
                                      HR |-> 0, SPO2 |-> 0]],
     tick_log |-> <<>>,
     \* per worker the seconds left of its sleep, and per patch the seconds
     \* since its Disconnect intent was posted (-1: none posted)
     timer |-> [w \in Workers |-> 0],
     age |-> [x \in PatchIds |-> -1],
     \* the flags of Settings, and what basestation_config_update printed last
     Settings |-> [PUBLISH_TO_THINGSBOARD |-> TRUE, SAVE_RAW_DATA |-> FALSE,
                   PUBLISH_RAW_DATA |-> FALSE, PROCESS_DATA |-> TRUE,
                   LOCAL_DATA_LOGGING |-> FALSE],
     console |-> <<>>,
     \* where the mapping thread stands in patient_mapping_loop, and the
     \* functions that logged an ApiException, in order
     map_pc |-> "listening",
     api_log |-> <<>>,
     \* where main stands, and the threads it has started
     main_pc |-> "done",
     started |-> Threads]

\* no thread inside any operation, every lock free
LocksAtRest ==
    /\ holder = [l \in Locks |-> "none"]
    /\ tpc = [t \in Threads |-> Idle]

BleAtRest ==
    /\ connected_devices = <<>>
    /\ wpc = [w \in Workers |-> "poll"]
    /\ waddr = [w \in Workers |-> "None"]
    /\ wlink = [w \in Workers |-> FALSE]
    /\ wremove = [w \in Workers |-> FALSE]

InitMap ==
    /\ patient_mapping \in Dicts(MapPatchIds, PatientIds)
    /\ mac_address_update = SeedIntents(DKeyList(patient_mapping), <<>>)
    /\ lastStep = NoStep
    /\ BleAtRest
    /\ script = 0
    /\ DataAtRest
    /\ LocksAtRest
    /\ aux = AuxAtRest

\* a worker claims a Connect intent, or completes a disconnect flow / the
\* janitor drops a Disconnect intent: the entry leaves mac_address_update
IntentConsumed(mac_address) ==
    /\ DHas(mac_address_update, mac_address)
    /\ mac_address_update' = DDel(mac_address_update, mac_address)
    /\ lastStep' = NoStep
    /\ UNCHANGED <<patient_mapping, bleVars, restVars>>

MapConnected(patient_name, mac_address) ==
    /\ OnConnected(patient_name, mac_address)
    /\ Observed("connect", patient_name, mac_address)
    /\ UNCHANGED <<bleVars, restVars>>

MapDisconnected(mac_address) ==
    /\ OnDisconnected(mac_address)
    /\ Observed("disconnect", "none", mac_address)
    /\ UNCHANGED <<bleVars, restVars>>

NextMap ==
    \/ \E p \in PatientIds, x \in MapPatchIds : MapConnected(p, x)
    \/ \E x \in MapPatchIds \cup {"disconnected"} : MapDisconnected(x)
    \/ \E x \in MapPatchIds : IntentConsumed(x)

SpecMap == InitMap /\ [][NextMap]_vars

\* the patches bound to a patient
BoundTo(pm, patient_name) == {k \in DKeys(pm) : DGet(pm, k) = patient_name}

\* C1: right after connect_update for {P, X}, patient_mapping holds exactly
\* one entry whose value is P, and it is X -> P, whatever it held before.
C1_ExactlyOneBinding ==
    lastStep.op = "connect" =>
        /\ BoundTo(patient_mapping, lastStep.patient) = {lastStep.patch}
        /\ Cardinality({i \in DOMAIN patient_mapping :
                            patient_mapping[i][2] = lastStep.patient}) = 1

\* C1 witness: the event found several patches bound to P and X bound to
\* another patient.
C1_Witness ==
    /\ lastStep.op = "connect"
    /\ Cardinality(BoundTo(lastStep.pm0, lastStep.patient)) >= 2
    /\ DHas(lastStep.pm0, lastStep.patch)
    /\ DGet(lastStep.pm0, lastStep.patch) # lastStep.patient

\* C7: right after connect_update for {P, Y}, Y is bound to P and carries a
\* Connect intent, and every patch that was bound to P before and is not Y
\* has left patient_mapping and carries a Disconnect intent.
C7_PatientMigration ==
    lastStep.op = "connect" =>
        /\ Lookup(patient_mapping, lastStep.patch) = lastStep.patient
        /\ Lookup(mac_address_update, lastStep.patch) = "add"
        /\ \A k \in BoundTo(lastStep.pm0, lastStep.patient) \ {lastStep.patch} :
              /\ ~DHas(patient_mapping, k)
              /\ Lookup(mac_address_update, k) = "remove"

\* C7 witness: scenario S2, {X -> P} with no intent for X, then
\* Connected{P, Y}.
C7_Witness ==
    /\ lastStep.op = "connect"
    /\ \E k \in MapPatchIds \ {lastStep.patch} :
          /\ lastStep.pm0 = <<<<k, lastStep.patient>>>>
          /\ lastStep.mau0 = <<>>
          /\ patient_mapping = <<<<lastStep.patch, lastStep.patient>>>>
          /\ mac_address_update = <<<<k, "remove">>, <<lastStep.patch, "add">>>>

MapKeys == MapPatchIds \cup {"disconnected"}

\* C8: right after disconnect_update for patch_id X, X is not a key of
\* patient_mapping, mac_address_update[X] is "remove" exactly when X is not
\* the literal "disconnected", and every other entry of both mailboxes is as
\* it was.
C8_DisconnectUpdate ==
    lastStep.op = "disconnect" =>
        \A k \in MapKeys :
            /\ Lookup(mac_address_update, k) =
                  IF k = lastStep.patch /\ lastStep.patch # "disconnected"
                  THEN "remove" ELSE Lookup(lastStep.mau0, k)
            /\ Lookup(patient_mapping, k) =
                  IF k = lastStep.patch THEN "absent" ELSE Lookup(lastStep.pm0, k)

\* C8 witness: the event removed a bound patch, left another binding in
\* place, and its Disconnect intent is posted.
C8_Witness ==
    /\ lastStep.op = "disconnect"
    /\ DHas(lastStep.pm0, lastStep.patch)
    /\ Len(patient_mapping) >= 1
    /\ Lookup(mac_address_update, lastStep.patch) = "remove"

(***************************************************************************)
(* BLE supervisor (Ble.py): NumWorkers connection tasks and the janitor,   *)
(* all on one cooperative event loop.  An action is what a task does from  *)
(* one await to the next.                                                  *)
(***************************************************************************)
\* get_key_from_value: the first key, in dict order, holding the value
get_key_from_value(d, val) ==
    LET first == CHOOSE i \in DOMAIN d :
                    /\ d[i][2] = val
                    /\ \A j \in DOMAIN d : d[j][2] = val => i <= j
    IN  d[first][1]

\* the mutated search: the entry selected stays in the mailbox
search_connectable_devices_keeps_entry(mau) ==
    IF "add" \in DValues(mau)
    THEN [address |-> get_key_from_value(mau, "add"), mau |-> mau]
    ELSE [address |-> "None", mau |-> mau]

\* search_connectable_devices: the address to connect to and the mailbox left
search_connectable_devices(mau) ==
    IF "add" \in DValues(mau)
    THEN LET address == get_key_from_value(mau, "add")
         IN  [address |-> address, mau |-> DDel(mau, address)]
    ELSE [address |-> "None", mau |-> mau]

\* search_remove_request: whether to disconnect, and the mailbox left
search_remove_request(address, mau) ==
    IF DHas(mau, address)
    THEN IF DGet(mau, address) = "remove" THEN [found |-> TRUE, mau |-> mau]
         ELSE IF DGet(mau, address) = "add"
              THEN [found |-> FALSE, mau |-> DDel(mau, address)]
              ELSE [found |-> FALSE, mau |-> mau]
    ELSE [found |-> FALSE, mau |-> mau]

\* the mutated pass: the first intent of any kind whose patch is not connected
invalid_remove_request_any_intent(mau, cd) ==
    IF mau # <<>> /\ ~DHas(cd, mau[1][1]) THEN Tail(mau) ELSE mau

\* invalid_remove_request_task, one pass: the mailbox left
invalid_remove_request(mau, cd) ==
    IF "remove" \in DValues(mau)
    THEN LET address == get_key_from_value(mau, "remove")
         IN  IF ~DHas(cd, address) THEN DDel(mau, address) ELSE mau
    ELSE mau

FirmwareVersion == "fw"

\* positions at which a task is between `async with BleakClient` and its exit
LinkPcs == {"connecting", "read_fw", "start_notify", "loop", "hk_sleep",
            "stop_notify", "closing"}
\* positions at which notifications are enabled and the main loop runs
StreamingPcs == {"loop", "hk_sleep"}

\* asyncio.sleep(2) at the end of the outer loop is over
WakeUp(w) ==
    /\ wpc[w] = "sleep2"
    /\ wpc' = [wpc EXCEPT ![w] = "poll"]
    /\ UNCHANGED <<mapVars, connected_devices, waddr, wlink, wremove>>

\* address = await search_connectable_devices(), up to the await in
\* `async with BleakClient(...)` or to the sleep
Poll(w) ==
    /\ wpc[w] = "poll"
    /\ LET got == search_connectable_devices(mac_address_update)
       IN  /\ mac_address_update' = got.mau
           /\ waddr' = [waddr EXCEPT ![w] = got.address]
           /\ wpc' = [wpc EXCEPT ![w] =
                        IF got.address # "None" THEN "connecting" ELSE "sleep2"]
    /\ lastStep' = NoStep
    /\ UNCHANGED <<patient_mapping, connected_devices, wlink, wremove>>

\* the link opens; device.is_connected holds and add_connected awaits the
\* read of the version characteristic
ConnectSucceeds(w) ==
    /\ wpc[w] = "connecting"
    /\ wlink' = [wlink EXCEPT ![w] = TRUE]
    /\ wpc' = [wpc EXCEPT ![w] = "read_fw"]
    /\ UNCHANGED <<mapVars, connected_devices, waddr, wremove>>

\* BleakDBusError: log, then asyncio.sleep(2)
ConnectBusError(w) ==
    /\ wpc[w] = "connecting"
    /\ wpc' = [wpc EXCEPT ![w] = "backoff"]
    /\ UNCHANGED <<mapVars, connected_devices, waddr, wlink, wremove>>

\* after the backoff the Connect intent is posted again; address is reset
Repost(w) ==
    /\ wpc[w] = "backoff"
    /\ mac_address_update' = DSet(mac_address_update, waddr[w], "add")
    /\ waddr' = [waddr EXCEPT ![w] = "None"]
    /\ wpc' = [wpc EXCEPT ![w] = "sleep2"]
    /\ lastStep' = NoStep
    /\ UNCHANGED <<patient_mapping, connected_devices, wlink, wremove>>

\* the mutated handler: the intent is posted again after a timeout as well
ConnectFails_reposts(w) ==
    /\ wpc[w] = "connecting"
    /\ mac_address_update' = DSet(mac_address_update, waddr[w], "add")
    /\ waddr' = [waddr EXCEPT ![w] = "None"]
    /\ wpc' = [wpc EXCEPT ![w] = "sleep2"]
    /\ lastStep' = NoStep
    /\ UNCHANGED <<patient_mapping, connected_devices, wlink, wremove>>

\* asyncio.TimeoutError or BleakError: log; address is reset
ConnectFails(w) ==
    /\ wpc[w] = "connecting"
    /\ waddr' = [waddr EXCEPT ![w] = "None"]
    /\ wpc' = [wpc EXCEPT ![w] = "sleep2"]
    /\ UNCHANGED <<mapVars, connected_devices, wlink, wremove>>

\* add_connected: the version is read and the patch is published as
\* connected, or the read fails and is logged; start_notify is awaited next
AddConnected(w, read_ok) ==
    /\ wpc[w] = "read_fw"
    /\ connected_devices' =
          IF read_ok THEN DSet(connected_devices, waddr[w], FirmwareVersion)
          ELSE connected_devices
    /\ wpc' = [wpc EXCEPT ![w] = "start_notify"]
    /\ UNCHANGED <<mapVars, waddr, wlink, wremove>>

\* the six start_notify calls are done; remove_request = False
StartNotify(w) ==
    /\ wpc[w] = "start_notify"
    /\ wremove' = [wremove EXCEPT ![w] = FALSE]
    /\ wpc' = [wpc EXCEPT ![w] = "loop"]
    /\ UNCHANGED <<mapVars, connected_devices, waddr, wlink>>

\* `while device.is_connected and remove_request is False`: into the sleep of
\* the loop body; or out of the loop, where `if device.is_connected` either
\* starts disconnect (stop_notify is awaited) or leaves the `async with`
\* (remove_request is not read again before StartNotify reassigns it)
LoopCheck(w) ==
    /\ wpc[w] = "loop"
    /\ IF wlink[w] /\ ~wremove[w]
       THEN /\ wpc' = [wpc EXCEPT ![w] = "hk_sleep"]
            /\ UNCHANGED <<waddr, wlink, wremove>>
       ELSE /\ wremove' = [wremove EXCEPT ![w] = FALSE]
            /\ IF wlink[w]
               THEN /\ wpc' = [wpc EXCEPT ![w] = "stop_notify"]
                    /\ UNCHANGED <<waddr, wlink>>
               ELSE /\ wpc' = [wpc EXCEPT ![w] = "sleep2"]
                    /\ waddr' = [waddr EXCEPT ![w] = "None"]
                    /\ UNCHANGED wlink
    /\ UNCHANGED <<mapVars, connected_devices>>

\* after asyncio.sleep(1): remove_request = await search_remove_request(address);
\* search_config_update, which follows, touches smartpatch_config_update only
Housekeeping(w) ==
    /\ wpc[w] = "hk_sleep"
    /\ LET got == search_remove_request(waddr[w], mac_address_update)
       IN  /\ mac_address_update' = got.mau
           /\ wremove' = [wremove EXCEPT ![w] = got.found]
    /\ wpc' = [wpc EXCEPT ![w] = "loop"]
    /\ lastStep' = NoStep
    /\ UNCHANGED <<patient_mapping, connected_devices, waddr, wlink>>

\* disconnect: the six stop_notify calls are done; device.disconnect() is awaited
StopNotify(w) ==
    /\ wpc[w] = "stop_notify"
    /\ wpc' = [wpc EXCEPT ![w] = "closing"]
    /\ UNCHANGED <<mapVars, connected_devices, waddr, wlink, wremove>>

\* disconnect: the link is closed and `del mac_address_update[address]` runs.
\* With no entry for address the del raises KeyError, which no handler of
\* connection_task catches: asyncio.gather passes it on and the BLE thread ends.
DisconnectFinish(w) ==
    /\ wpc[w] = "closing"
    /\ IF DHas(mac_address_update, waddr[w])
       THEN /\ mac_address_update' = DDel(mac_address_update, waddr[w])
            /\ wpc' = [wpc EXCEPT ![w] = "sleep2"]
            /\ waddr' = [waddr EXCEPT ![w] = "None"]
            /\ wlink' = [wlink EXCEPT ![w] = FALSE]
       ELSE /\ wpc' = [v \in Workers |-> "dead"]
            /\ waddr' = [v \in Workers |-> "None"]
            /\ wlink' = [v \in Workers |-> FALSE]
            /\ UNCHANGED mac_address_update
    /\ lastStep' = NoStep
    /\ UNCHANGED <<patient_mapping, connected_devices, wremove>>

\* the patch goes out of range or switches off
LinkLost(w) ==
    /\ wlink[w]
    /\ wlink' = [wlink EXCEPT ![w] = FALSE]
    /\ UNCHANGED <<mapVars, connected_devices, wpc, waddr, wremove>>

\* invalid_remove_request_task, one pass after asyncio.sleep(30)
Janitor ==
    /\ \E w \in Workers : wpc[w] # "dead"
    /\ mac_address_update' = invalid_remove_request(mac_address_update, connected_devices)
    /\ lastStep' = NoStep
    /\ UNCHANGED <<patient_mapping, bleVars>>

WorkerStep(w) ==
    \/ WakeUp(w)
    \/ Poll(w)
    \/ ConnectSucceeds(w)
    \/ ConnectBusError(w)
    \/ Repost(w)
    \/ ConnectFails(w)
    \/ \E read_ok \in BOOLEAN : AddConnected(w, read_ok)
    \/ StartNotify(w)
    \/ LoopCheck(w)
    \/ Housekeeping(w)
    \/ StopNotify(w)
    \/ DisconnectFinish(w)

(***************************************************************************)
(* Mapping controller and BLE supervisor together.                         *)
(***************************************************************************)
Init ==
    /\ patient_mapping \in Dicts(PatchIds, PatientIds)
    /\ mac_address_update = SeedIntents(DKeyList(patient_mapping), <<>>)
    /\ lastStep = NoStep
    /\ BleAtRest
    /\ script = 0
    /\ DataAtRest
    /\ LocksAtRest
    /\ aux = AuxAtRest

\* an event handled with nobody looking at the handler
Unobserved == lastStep' = NoStep /\ UNCHANGED <<bleVars, restVars>>

Next ==
    \/ \E p \in PatientIds, x \in PatchIds : OnConnected(p, x) /\ Unobserved
    \/ \E x \in PatchIds \cup {"disconnected"} : OnDisconnected(x) /\ Unobserved
    \/ \E w \in Workers : WakeUp(w) /\ UNCHANGED restVars
    \/ \E w \in Workers : Poll(w) /\ UNCHANGED restVars
    \/ \E w \in Workers : ConnectSucceeds(w) /\ UNCHANGED restVars
    \/ \E w \in Workers : ConnectBusError(w) /\ UNCHANGED restVars
    \/ \E w \in Workers : Repost(w) /\ UNCHANGED restVars
    \/ \E w \in Workers : ConnectFails(w) /\ UNCHANGED restVars
    \/ \E w \in Workers, read_ok \in BOOLEAN : AddConnected(w, read_ok) /\ UNCHANGED restVars
    \/ \E w \in Workers : StartNotify(w) /\ UNCHANGED restVars
    \/ \E w \in Workers : LoopCheck(w) /\ UNCHANGED restVars
    \/ \E w \in Workers : Housekeeping(w) /\ UNCHANGED restVars
    \/ \E w \in Workers : StopNotify(w) /\ UNCHANGED restVars
    \/ \E w \in Workers : DisconnectFinish(w) /\ UNCHANGED restVars
    \/ \E w \in Workers : LinkLost(w) /\ UNCHANGED restVars
    \/ Janitor /\ UNCHANGED restVars

Spec == Init /\ [][Next]_vars

\* worker w is connecting to patch x or streaming from it
Holds(w, x) ==
    /\ waddr[w] = x
    /\ wpc[w] \in {"connecting", "read_fw", "start_notify"} \cup StreamingPcs

\* the patches some worker has inside its `async with BleakClient` block
OpenLinks == {waddr[w] : w \in {v \in Workers : wpc[v] \in LinkPcs}}

\* C2: at every moment, for every patch, at most one worker is connecting to
\* it or streaming from it.
C2_OneWorkerPerPatch ==
    \A x \in PatchIds : Cardinality({w \in Workers : Holds(w, x)}) <= 1

\* C3: in every reachable state the keys of connected_devices are patches
\* that a worker currently has an open link to.
C3_ConnectedHaveOpenLink ==
    DKeys(connected_devices) \subseteq OpenLinks

(***************************************************************************)
(* Scenario S1: empty mailboxes, Connected{P1, X1}, and Disconnected{_, X1}*)
(* once a worker has completed the handshake with X1 and streams from it;  *)
(* nothing else comes from the control plane.  The event loop runs every   *)
(* task that is ready (weak fairness of each task and of the janitor);     *)
(* what the radio link does is up to the environment.                      *)
(***************************************************************************)
InitS1 ==
    /\ patient_mapping = <<>>
    /\ mac_address_update = <<>>
    /\ lastStep = NoStep
    /\ BleAtRest
    /\ script = 0
    /\ DataAtRest
    /\ LocksAtRest
    /\ aux = AuxAtRest

S1Connected ==
    /\ script = 0
    /\ OnConnected("P1", "X1")
    /\ Observed("connect", "P1", "X1")
    /\ script' = 1
    /\ UNCHANGED <<bleVars, dataVars, lockVars, aux>>

S1Disconnected ==
    /\ script = 1
    /\ \E w \in Workers : waddr[w] = "X1" /\ wpc[w] \in StreamingPcs /\ wlink[w]
    /\ DHas(connected_devices, "X1")
    /\ OnDisconnected("X1")
    /\ Observed("disconnect", "none", "X1")
    /\ script' = 2
    /\ UNCHANGED <<bleVars, dataVars, lockVars, aux>>

NextS1 ==
    \/ S1Connected
    \/ S1Disconnected
    \/ \E w \in Workers : WakeUp(w) /\ UNCHANGED restVars
    \/ \E w \in Workers : Poll(w) /\ UNCHANGED restVars
    \/ \E w \in Workers : ConnectSucceeds(w) /\ UNCHANGED restVars
    \/ \E w \in Workers : ConnectBusError(w) /\ UNCHANGED restVars
    \/ \E w \in Workers : Repost(w) /\ UNCHANGED restVars
    \/ \E w \in Workers : ConnectFails(w) /\ UNCHANGED restVars
    \/ \E w \in Workers, read_ok \in BOOLEAN : AddConnected(w, read_ok) /\ UNCHANGED restVars
    \/ \E w \in Workers : StartNotify(w) /\ UNCHANGED restVars
    \/ \E w \in Workers : LoopCheck(w) /\ UNCHANGED restVars
    \/ \E w \in Workers : Housekeeping(w) /\ UNCHANGED restVars
    \/ \E w \in Workers : StopNotify(w) /\ UNCHANGED restVars
    \/ \E w \in Workers : DisconnectFinish(w) /\ UNCHANGED restVars
    \/ \E w \in Workers : LinkLost(w) /\ UNCHANGED restVars
    \/ Janitor /\ UNCHANGED restVars

FairS1 ==
    /\ InitS1
    /\ [][NextS1]_vars
    /\ \A w \in Workers : WF_vars(WorkerStep(w) /\ UNCHANGED restVars)
    /\ WF_vars(Janitor /\ UNCHANGED restVars)

\* C6: in scenario S1, Connected{P1, X1} yields patient_mapping = {X1 -> P1}
\* and mac_address_update = {X1 -> "add"}; and once Disconnected{_, X1} has
\* been received while a worker streams from X1, the system eventually
\* reaches a state where no worker is on X1 any more and both mailboxes are
\* empty.
C6_RoundTrip ==
    /\ [](script = 1 /\ lastStep.op = "connect" =>
            /\ patient_mapping = <<<<"X1", "P1">>>>
            /\ mac_address_update = <<<<"X1", "add">>>>)
    /\ (script = 2) ~>
            (/\ patient_mapping = <<>>
             /\ mac_address_update = <<>>
             /\ \A w \in Workers : waddr[w] # "X1")

(***************************************************************************)
(* The data path: notification callbacks append raw samples, the DSP tick  *)
(* drains them (data_processing when PROCESS_DATA, no_data_processing      *)
(* otherwise), the sink swaps processed_data out.  A raw sample is known   *)
(* by its timestamp; a datapoint carries the timestamp of the last sample  *)
(* of its tick (current_ts).                                               *)
(***************************************************************************)
RawSample(ts) == [ts |-> ts, kind |-> "raw"]
Datapoint(ts) == [ts |-> ts, kind |-> "vitals"]

\* the timestamps of the samples in a list, and in a whole mailbox
Stamps(samples) == {samples[j].ts : j \in DOMAIN samples}
SamplesIn(ud) == UNION {Stamps(ud[i][2]) : i \in DOMAIN ud}

\* dict[address].append(item), creating the list on the first item
AppendTo(d, address, item) ==
    IF DHas(d, address)
    THEN DSet(d, address, Append(DGet(d, address), item))
    ELSE Append(d, <<address, <<item>>>>)

\* the callback enters its critical section without taking the guard
callback_unguarded(lock) == TRUE

\* `with Globals.unprocessed_data_lock:` of the callback
callback_may_enter(lock) == lock = "none"

\* what the pipeline of one address (split_data .. delete_old_data) ends
\* with, depending on the signal: it completes, or raises KeyError (a
\* channel of the patch has no window yet), BadSignalWarning (heartpy
\* rejects the signal), ValueError (filtfilt on a window not longer than
\* its padding) or IndexError (imu_conversion on a window shorter than its
\* 120 rows)
PipelineOutcomes == {"ok", "KeyError", "BadSignalWarning", "ValueError", "IndexError"}

\* the mutated handler: except KeyError
Caught_KeyError_only(e) == e = "KeyError"

\* except (KeyError, hp.exceptions.BadSignalWarning)
Caught(e) == e \in {"KeyError", "BadSignalWarning"}

Handed(h, stamps) == [s \in DOMAIN h |-> IF s \in stamps THEN h[s] + 1 ELSE h[s]]

\* a notification from the patch of worker w
Callback(w) ==
    /\ wpc[w] \in StreamingPcs \cup {"stop_notify"}
    /\ wlink[w]
    /\ delivered < MaxSamples
    /\ callback_may_enter(unprocessed_data_lock)
    /\ unprocessed_data' = AppendTo(unprocessed_data, waddr[w], RawSample(delivered + 1))
    /\ delivered' = delivered + 1
    /\ UNCHANGED <<processed_data, unprocessed_data_lock, PROCESS_DATA, dsp_pc, dsp_i,
                   current_data, handed, released>>

\* `if Globals.unprocessed_data:` (otherwise the tick sleeps and checks again)
DspCheck ==
    /\ dsp_pc = "check"
    /\ unprocessed_data # <<>>
    /\ dsp_pc' = "acquire"
    /\ UNCHANGED <<unprocessed_data, processed_data, unprocessed_data_lock, PROCESS_DATA,
                   dsp_i, current_data, delivered, handed, released>>

\* `with Globals.unprocessed_data_lock:`
DspAcquire ==
    /\ dsp_pc = "acquire"
    /\ unprocessed_data_lock = "none"
    /\ unprocessed_data_lock' = "Processing_Thread"
    /\ dsp_pc' = IF PROCESS_DATA THEN "loop" ELSE "swap"
    /\ dsp_i' = 1
    /\ released' = [valid |-> FALSE, ud |-> <<>>]
    /\ UNCHANGED <<unprocessed_data, processed_data, PROCESS_DATA, current_data,
                   delivered, handed>>

\* one iteration of `for address in Globals.unprocessed_data`: the samples
\* of the address are read and run through the pipeline; an exception the
\* handler does not catch leaves the `with` block and ends the thread
DspAddress(e) ==
    /\ dsp_pc = "loop"
    /\ dsp_i <= Len(unprocessed_data)
    /\ LET address == unprocessed_data[dsp_i][1]
           local_data == unprocessed_data[dsp_i][2]
           end == local_data[Len(local_data)].ts
       IN  /\ handed' = Handed(handed, Stamps(local_data))
           /\ processed_data' = IF e = "ok"
                                THEN AppendTo(processed_data, address, Datapoint(end))
                                ELSE processed_data
    /\ IF e = "ok" \/ Caught(e)
       THEN /\ dsp_i' = dsp_i + 1
            /\ UNCHANGED <<dsp_pc, unprocessed_data_lock, released>>
       ELSE /\ dsp_pc' = "dead"
            /\ unprocessed_data_lock' = "none"
            /\ released' = [valid |-> TRUE, ud |-> unprocessed_data]
            /\ UNCHANGED dsp_i
    /\ UNCHANGED <<unprocessed_data, PROCESS_DATA, current_data, delivered>>

\* `Globals.unprocessed_data = {}`, the end of the `with` block and the sleep
DspReset ==
    /\ dsp_pc = "loop"
    /\ dsp_i > Len(unprocessed_data)
    /\ unprocessed_data' = <<>>
    /\ unprocessed_data_lock' = "none"
    /\ released' = [valid |-> TRUE, ud |-> unprocessed_data']
    /\ dsp_pc' = "check"
    /\ dsp_i' = 1
    /\ UNCHANGED <<processed_data, PROCESS_DATA, current_data, delivered, handed>>

\* no_data_processing: read, reset, end of the `with` block
DspSwap ==
    /\ dsp_pc = "swap"
    /\ current_data' = unprocessed_data
    /\ handed' = Handed(handed, SamplesIn(unprocessed_data))
    /\ unprocessed_data' = <<>>
    /\ unprocessed_data_lock' = "none"
    /\ released' = [valid |-> TRUE, ud |-> unprocessed_data']
    /\ dsp_pc' = "store"
    /\ UNCHANGED <<processed_data, PROCESS_DATA, dsp_i, delivered>>

\* the mutated store: only the first patch of the batch is passed on
DspStore_first_patch_only ==
    /\ dsp_pc = "store"
    /\ processed_data' = IF current_data = <<>> THEN <<>> ELSE <<current_data[1]>>
    /\ dsp_pc' = "check"
    /\ UNCHANGED <<unprocessed_data, unprocessed_data_lock, PROCESS_DATA, dsp_i,
                   current_data, delivered, handed, released>>

\* no_data_processing: `Globals.processed_data = current_data` and the sleep
DspStore ==
    /\ dsp_pc = "store"
    /\ processed_data' = current_data
    /\ dsp_pc' = "check"
    /\ UNCHANGED <<unprocessed_data, unprocessed_data_lock, PROCESS_DATA, dsp_i,
                   current_data, delivered, handed, released>>

\* the sink takes processed_data and leaves an empty dict
SinkSwap ==
    /\ processed_data # <<>>
    /\ processed_data' = <<>>
    /\ UNCHANGED <<unprocessed_data, unprocessed_data_lock, PROCESS_DATA, dsp_pc, dsp_i,
                   current_data, delivered, handed, released>>

\* every worker streams from a patch of its own; either processing mode
InitData ==
    /\ patient_mapping = <<>>
    /\ mac_address_update = <<>>
    /\ lastStep = NoStep
    /\ \E f \in [Workers -> PatchIds] :
          /\ \A v, w \in Workers : f[v] = f[w] => v = w
          /\ waddr = f
          /\ connected_devices = [w \in Workers |-> <<f[w], FirmwareVersion>>]
    /\ wpc = [w \in Workers |-> "loop"]
    /\ wlink = [w \in Workers |-> TRUE]
    /\ wremove = [w \in Workers |-> FALSE]
    /\ script = 0
    /\ unprocessed_data = <<>>
    /\ processed_data = <<>>
    /\ unprocessed_data_lock = "none"
    /\ PROCESS_DATA \in BOOLEAN
    /\ dsp_pc = "check"
    /\ dsp_i = 1
    /\ current_data = <<>>
    /\ delivered = 0
    /\ handed = [s \in 1..MaxSamples |-> 0]
    /\ released = [valid |-> FALSE, ud |-> <<>>]
    /\ LocksAtRest
    /\ aux = AuxAtRest

dataRest == <<mapVars, bleVars, script, lockVars, aux>>

NextData ==
    \/ \E w \in Workers : Callback(w) /\ UNCHANGED dataRest
    \/ DspCheck /\ UNCHANGED dataRest
    \/ DspAcquire /\ UNCHANGED dataRest
    \/ \E e \in PipelineOutcomes : DspAddress(e) /\ UNCHANGED dataRest
    \/ DspReset /\ UNCHANGED dataRest
    \/ DspSwap /\ UNCHANGED dataRest
    \/ DspStore /\ UNCHANGED dataRest
    \/ SinkSwap /\ UNCHANGED dataRest

SpecData == InitData /\ [][NextData]_vars

\* C4: whenever the DSP has released the guard of the raw mailbox at the end
\* of a tick that found pending data, unprocessed_data was the empty map at
\* that moment.
C4_EmptyAtRelease ==
    released.valid => released.ud = <<>>

\* C5: every raw sample a callback has appended is read by at most one DSP
\* tick, and a sample no tick has read yet is still in unprocessed_data:
\* none is dropped by a reset and none is handed twice.
C5_HandedOnce ==
    \A s \in 1..delivered :
        /\ handed[s] <= 1
        /\ handed[s] = 0 => s \in SamplesIn(unprocessed_data)

\* a tick has read a sample and reset the mailbox, and a callback has
\* appended another sample since
C5_Witness ==
    /\ released.valid
    /\ released.ud = <<>>
    /\ \E s, t \in 1..delivered :
          /\ s < t
          /\ handed[s] = 1
          /\ handed[t] = 0
          /\ t \in SamplesIn(unprocessed_data)

(***************************************************************************)
(* Lock discipline.  Every operation that touches a mailbox is the         *)
(* sequence of its lock acquisitions, lock releases and mailbox accesses,  *)
(* in program order along its longest path: each thread runs one operation *)
(* at a time (the tasks of the BLE thread never await inside a `with`      *)
(* block).  The accesses between two lock operations happen with the same  *)
(* locks held, so a thread takes them in one step with the lock operation  *)
(* that follows, and the threads interleave between these steps.           *)
(***************************************************************************)
Acquire(l) == [k |-> "acquire", on |-> l]
Release(l) == [k |-> "release", on |-> l]
Read(m) == [k |-> "read", on |-> m]
Write(m) == [k |-> "write", on |-> m]
\* `if Globals.m:` ahead of the critical section, to decide whether to enter it
Peek(m) == [k |-> "peek", on |-> m]

Mailboxes == {"connected_devices", "mac_address_update", "patient_mapping",
              "smartpatch_config_update", "unprocessed_data", "processed_data"}

\* the lock of Globals.py that belongs to a mailbox
Guard(m) ==
    CASE m = "connected_devices" -> "connected_devices_lock"
      [] m = "mac_address_update" -> "mac_address_update_lock"
      [] m = "patient_mapping" -> "patient_mapping_lock"
      [] m = "smartpatch_config_update" -> "config_update_lock"
      [] m = "unprocessed_data" -> "unprocessed_data_lock"
      [] m = "processed_data" -> "processed_data_lock"

\* Python's `a and b` on two Lock objects: a Lock defines neither __bool__
\* nor __len__, so `a` is true and the expression is `b`
PyAnd(a, b) == b

\* the janitor looks the patch up in patient_mapping, under that guard
invalid_remove_request_locks_mapping ==
    <<Acquire("mac_address_update_lock"), Read("mac_address_update"),
      Acquire("patient_mapping_lock"), Read("patient_mapping"),
      Write("mac_address_update"), Release("patient_mapping_lock"),
      Release("mac_address_update_lock")>>

\* invalid_remove_request_task, one pass: connected_devices_lock is taken
\* inside mac_address_update_lock
invalid_remove_request_locks ==
    <<Acquire("mac_address_update_lock"), Read("mac_address_update"),
      Acquire("connected_devices_lock"), Read("connected_devices"),
      Write("mac_address_update"), Release("connected_devices_lock"),
      Release("mac_address_update_lock")>>

Program(op) ==
    CASE op = "patient_mapping_loop" ->
            <<Acquire("patient_mapping_lock"), Write("patient_mapping"),
              Acquire("mac_address_update_lock"), Read("patient_mapping"),
              Write("mac_address_update"), Release("mac_address_update_lock"),
              Release("patient_mapping_lock")>>
      [] op = "connect_update" ->
            <<Acquire(PyAnd("patient_mapping_lock", "mac_address_update_lock")),
              Read("patient_mapping"), Write("patient_mapping"),
              Write("mac_address_update"), Write("patient_mapping"),
              Write("mac_address_update"),
              Release(PyAnd("patient_mapping_lock", "mac_address_update_lock"))>>
      [] op = "disconnect_update" ->
            <<Acquire("mac_address_update_lock"), Write("mac_address_update"),
              Release("mac_address_update_lock"), Acquire("patient_mapping_lock"),
              Read("patient_mapping"), Write("patient_mapping"),
              Release("patient_mapping_lock")>>
      [] op = "smartpatch_config_update" ->
            <<Acquire("config_update_lock"), Write("smartpatch_config_update"),
              Release("config_update_lock")>>
      [] op = "search_connectable_devices" ->
            <<Acquire("mac_address_update_lock"), Read("mac_address_update"),
              Write("mac_address_update"), Release("mac_address_update_lock")>>
      [] op = "search_remove_request" ->
            <<Acquire("mac_address_update_lock"), Read("mac_address_update"),
              Write("mac_address_update"), Release("mac_address_update_lock")>>
      [] op = "disconnect" ->
            <<Acquire("mac_address_update_lock"), Write("mac_address_update"),
              Release("mac_address_update_lock")>>
      [] op = "invalid_remove_request_task" -> invalid_remove_request_locks
      [] op = "add_connected" ->
            <<Acquire("connected_devices_lock"), Write("connected_devices"),
              Release("connected_devices_lock")>>
      [] op = "search_config_update" ->
            <<Acquire("config_update_lock"), Read("smartpatch_config_update"),
              Release("config_update_lock")>>
      [] op = "search_config_update_reset" ->
            <<Acquire("config_update_lock"), Write("smartpatch_config_update"),
              Release("config_update_lock")>>
      [] op = "connection_task" ->
            <<Acquire("mac_address_update_lock"), Write("mac_address_update"),
              Release("mac_address_update_lock")>>
      [] op = "callback" ->
            <<Acquire("unprocessed_data_lock"), Read("unprocessed_data"),
              Write("unprocessed_data"), Release("unprocessed_data_lock")>>
      [] op = "data_processing" ->
            <<Peek("unprocessed_data"), Acquire("unprocessed_data_lock"),
              Read("unprocessed_data"), Acquire("processed_data_lock"),
              Write("processed_data"), Release("processed_data_lock"),
              Write("unprocessed_data"), Release("unprocessed_data_lock")>>
      [] op = "no_data_processing" ->
            <<Peek("unprocessed_data"), Acquire("unprocessed_data_lock"),
              Read("unprocessed_data"), Write("unprocessed_data"),
              Release("unprocessed_data_lock"), Acquire("processed_data_lock"),
              Write("processed_data"), Release("processed_data_lock")>>
      [] op = "publishing_loop" ->
            <<Peek("processed_data"), Acquire("processed_data_lock"),
              Read("processed_data"), Write("processed_data"),
              Release("processed_data_lock"), Read("patient_mapping"),
              Acquire("connected_devices_lock"), Read("connected_devices"),
              Release("connected_devices_lock")>>
      [] op = "local_logging_loop" ->
            <<Peek("processed_data"), Acquire("processed_data_lock"),
              Read("processed_data"), Write("processed_data"),
              Release("processed_data_lock")>>
      [] op = "raw_data_publishing_loop" ->
            <<Peek("unprocessed_data"), Acquire("unprocessed_data_lock"),
              Read("unprocessed_data"), Release("unprocessed_data_lock"),
              Read("unprocessed_data"), Read("patient_mapping")>>
      [] op = "raw_data_logging_loop" ->
            <<Peek("unprocessed_data"), Acquire("unprocessed_data_lock"),
              Read("unprocessed_data"), Release("unprocessed_data_lock"),
              Read("unprocessed_data")>>

\* the operations each thread of Basestation.main runs
Ops(t) ==
    CASE t = "Mapping_Thread" ->
            {"patient_mapping_loop", "connect_update", "disconnect_update",
             "smartpatch_config_update"}
      [] t = "BLE_Thread" ->
            {"search_connectable_devices", "search_remove_request", "disconnect",
             "invalid_remove_request_task", "add_connected", "search_config_update",
             "search_config_update_reset", "connection_task", "callback"}
      [] t = "Processing_Thread" -> {"data_processing", "no_data_processing"}
      [] t = "Publishing_Thread" -> {"publishing_loop", "local_logging_loop"}
      [] t = "Raw_Data_Thread" -> {"raw_data_publishing_loop", "raw_data_logging_loop"}

Instr(t, j) == Program(tpc[t].op)[j]

IsLockOp(ins) == ins.k \in {"acquire", "release"}

\* the next lock operation of thread t at or after its position, or the
\* last instruction of the operation if no lock operation is left
RECURSIVE NextLockOp(_, _)
NextLockOp(t, j) ==
    IF j = Len(Program(tpc[t].op)) \/ IsLockOp(Instr(t, j))
    THEN j
    ELSE NextLockOp(t, j + 1)

\* the mailbox accesses thread t makes before its next lock operation, that
\* is, with the locks it holds now
Pending(t) ==
    {j \in tpc[t].i .. NextLockOp(t, tpc[t].i) : ~IsLockOp(Instr(t, j))}

\* the position after instruction j; idle after the last one
Advance(t, j) ==
    IF j = Len(Program(tpc[t].op))
    THEN Idle
    ELSE [op |-> tpc[t].op, i |-> j + 1]

Begin(t, op) ==
    /\ tpc[t] = Idle
    /\ op \in Ops(t)
    /\ tpc' = [tpc EXCEPT ![t] = [op |-> op, i |-> 1]]
    /\ UNCHANGED holder

\* thread t runs up to and including its next lock operation;
\* threading.Lock.acquire blocks while the lock is held, by anyone
LockAcquire(t) ==
    /\ tpc[t] # Idle
    /\ LET j == NextLockOp(t, tpc[t].i)
       IN  /\ Instr(t, j).k = "acquire"
           /\ holder[Instr(t, j).on] = "none"
           /\ holder' = [holder EXCEPT ![Instr(t, j).on] = t]
           /\ tpc' = [tpc EXCEPT ![t] = Advance(t, j)]

LockRelease(t) ==
    /\ tpc[t] # Idle
    /\ LET j == NextLockOp(t, tpc[t].i)
       IN  /\ Instr(t, j).k = "release"
           /\ holder' = [holder EXCEPT ![Instr(t, j).on] = "none"]
           /\ tpc' = [tpc EXCEPT ![t] = Advance(t, j)]

\* the accesses after the last lock operation of an operation
Finish(t) ==
    /\ tpc[t] # Idle
    /\ LET j == NextLockOp(t, tpc[t].i)
       IN  /\ ~IsLockOp(Instr(t, j))
           /\ tpc' = [tpc EXCEPT ![t] = Advance(t, j)]
    /\ UNCHANGED holder

InitLock ==
    /\ patient_mapping = <<>>
    /\ mac_address_update = <<>>
    /\ lastStep = NoStep
    /\ BleAtRest
    /\ script = 0
    /\ DataAtRest
    /\ LocksAtRest
    /\ aux = AuxAtRest

lockRest == <<mapVars, bleVars, script, dataVars, aux>>

NextLock ==
    \/ \E t \in Threads : \E op \in Ops(t) : Begin(t, op) /\ UNCHANGED lockRest
    \/ \E t \in Threads : LockAcquire(t) /\ UNCHANGED lockRest
    \/ \E t \in Threads : LockRelease(t) /\ UNCHANGED lockRest
    \/ \E t \in Threads : Finish(t) /\ UNCHANGED lockRest

SpecLock == InitLock /\ [][NextLock]_vars

\* C9: from the `with` statement of connect_update to its end, the mapping
\* thread holds the guard of patient_mapping and the guard of
\* mac_address_update at once.
C9_BothGuardsHeld ==
    (tpc["Mapping_Thread"].op = "connect_update" /\ tpc["Mapping_Thread"].i > 1) =>
        /\ holder["patient_mapping_lock"] = "Mapping_Thread"
        /\ holder["mac_address_update_lock"] = "Mapping_Thread"

\* C10: a thread that is about to mutate a mailbox, or to read one in order
\* to act on it, holds the guard of that mailbox.
C10_GuardHeld ==
    \A t \in Threads :
        tpc[t] # Idle =>
            \A j \in Pending(t) :
                Instr(t, j).k \in {"read", "write"} =>
                    holder[Guard(Instr(t, j).on)] = t

\* thread t stands at an acquire of a lock that is held (threading.Lock is
\* not reentrant: held by t itself counts)
Blocked(t) ==
    /\ tpc[t] # Idle
    /\ Instr(t, NextLockOp(t, tpc[t].i)).k = "acquire"
    /\ holder[Instr(t, NextLockOp(t, tpc[t].i)).on] # "none"

\* the thread holding the lock t is blocked on
WaitsFor(t) == holder[Instr(t, NextLockOp(t, tpc[t].i)).on]

HeldBy(t) == {l \in Locks : holder[l] = t}

\* C11: there is no set of threads each of which is blocked on a guard held
\* by another thread of the set.
C11_NoDeadlock ==
    \A S \in SUBSET Threads :
        S # {} => \E t \in S : ~(Blocked(t) /\ WaitsFor(t) \in S)

\* a thread is blocked on a guard whose holder holds two guards at once
C11_Witness ==
    \E t \in Threads :
        /\ Blocked(t)
        /\ WaitsFor(t) # t
        /\ Cardinality(HeldBy(WaitsFor(t))) = 2

(***************************************************************************)
(* Stages modelled on their own.  Their state is in aux; the rest of the   *)
(* program stands still.                                                   *)
(***************************************************************************)
coreVars == <<mapVars, bleVars, script, dataVars, lockVars>>

\* nothing has happened anywhere
InitAtRest ==
    /\ patient_mapping = <<>>
    /\ mac_address_update = <<>>
    /\ lastStep = NoStep
    /\ BleAtRest
    /\ script = 0
    /\ DataAtRest
    /\ LocksAtRest
    /\ aux = AuxAtRest

(***************************************************************************)
(* Decoding of a notification (convert_data) and the callback around it.   *)
(* A payload is a sequence of bytes; the unsigned four-byte                *)
(* characteristics are given payloads whose elements stay below 2^31.      *)
(***************************************************************************)
MaxBytes == 6
Bytes == {0, 2, 255}

notify_handles ==
    (2 :> "imu") @@ (6 :> "ppg") @@ (25 :> "audio") @@ (29 :> "voltage") @@
    (32 :> "current") @@ (41 :> "temperature")

bytes_per_int ==
    [imu |-> 2, audio |-> 2, ppg |-> 4, temperature |-> 4, voltage |-> 4, current |-> 4]

\* int.from_bytes(bytes, byteorder='little', signed=False)
RECURSIVE from_bytes_unsigned(_)
from_bytes_unsigned(b) ==
    IF b = <<>> THEN 0 ELSE b[1] + 256 * from_bytes_unsigned(Tail(b))

\* int.from_bytes(bytes, byteorder='little', signed=signed): in two's
\* complement the last byte counts from -128 to 127
from_bytes(b, signed) ==
    IF b = <<>> THEN 0
    ELSE LET n == Len(b)
             top == IF signed /\ b[n] >= 128 THEN b[n] - 256 ELSE b[n]
         IN  from_bytes_unsigned(SubSeq(b, 1, n - 1)) + (256 ^ (n - 1)) * top

convert_data(char, data) ==
    LET signed == (char = "ppg") \/ (char = "imu")
        step == bytes_per_int[char]
    IN  [index \in 1 .. (Len(data) \div step) |->
            from_bytes(SubSeq(data, step * (index - 1) + 1, step * index), signed)]

\* the payloads of at most MaxBytes bytes
RECURSIVE Payloads(_)
Payloads(n) ==
    IF n = 0 THEN {<<>>}
    ELSE Payloads(n - 1) \cup {Append(p, b) : p \in Payloads(n - 1), b \in Bytes}

\* every complete element of the payload can be told apart from a negative number
InRange(sender, data) ==
    LET char == notify_handles[sender]
        step == bytes_per_int[char]
    IN  (step = 4 /\ char # "ppg") =>
            \A index \in 1 .. (Len(data) \div step) : data[step * index] < 128

\* the callback of worker w on the notification in flight: it appends
\* {'ts': timestamp, 'values': {char: converted_data}}
CallbackDecode(w) ==
    /\ ~aux.notification.handled
    /\ wpc[w] \in StreamingPcs \cup {"stop_notify"}
    /\ wlink[w]
    /\ callback_may_enter(unprocessed_data_lock)
    /\ LET char == notify_handles[aux.notification.sender]
           converted_data == convert_data(char, aux.notification.data)
       IN  unprocessed_data' =
              AppendTo(unprocessed_data, waddr[w],
                       [ts |-> delivered + 1, values |-> <<<<char, converted_data>>>>])
    /\ delivered' = delivered + 1
    /\ aux' = [aux EXCEPT !.notification.handled = TRUE]
    /\ UNCHANGED <<processed_data, unprocessed_data_lock, PROCESS_DATA, dsp_pc, dsp_i,
                   current_data, handed, released>>
    /\ UNCHANGED <<mapVars, bleVars, script, lockVars>>

\* worker 1 streams; a patch sends one notification on one of the six handles
InitDecode ==
    /\ patient_mapping = <<>>
    /\ mac_address_update = <<>>
    /\ lastStep = NoStep
    /\ connected_devices = <<<<"X1", FirmwareVersion>>>>
    /\ wpc = [w \in Workers |-> IF w = 1 THEN "loop" ELSE "poll"]
    /\ waddr = [w \in Workers |-> IF w = 1 THEN "X1" ELSE "None"]
    /\ wlink = [w \in Workers |-> w = 1]
    /\ wremove = [w \in Workers |-> FALSE]
    /\ script = 0
    /\ DataAtRest
    /\ LocksAtRest
    /\ \E sender \in DOMAIN notify_handles, data \in Payloads(MaxBytes) :
          /\ InRange(sender, data)
          /\ aux = [AuxAtRest EXCEPT
                      !.notification = [sender |-> sender, data |-> data, handled |-> FALSE]]

SpecDecode == InitDecode /\ [][\E w \in Workers : CallbackDecode(w)]_vars

\* C12: a notification whose payload length is not a multiple of the element
\* width of its characteristic leaves unprocessed_data without a sample.
C12_MisalignedDropped ==
    (/\ aux.notification.handled
     /\ Len(aux.notification.data)
           % bytes_per_int[notify_handles[aux.notification.sender]] # 0)
        => unprocessed_data = <<>>

(***************************************************************************)
(* The rolling windows of one patch, by length.  One iteration of          *)
(* data_processing for the patch is one step: split_data, ppg_analysis,    *)
(* imu_conversion, calc_battery_percentage, heartpy_analysis, write_back,  *)
(* delete_old_data, cut short by the first exception.                      *)
(***************************************************************************)
MaxTicks == 6

PpgCap == 5000
PpgDrop == 4000
ImuCap == 2000
ImuDrop == 1000
ScalarCap == 200
ScalarDrop == 100
PadLen == 21
ActivityRows == 120

\* what a batch adds to each window: nothing, or what piles up while the DSP
\* is late (3000 ppg rows are the 30 s of the cold start at 100 Hz)
Batches == [ppg : {0, 3000}, imu : {0, 1000}, temp : {0, 100}, voltage : {0, 100}]

\* x[drop:] if len(x) > cap
Trim(len, cap, drop) == IF len > cap THEN len - drop ELSE len

delete_old_data(w) ==
    [ppg |-> Trim(w.ppg, PpgCap, PpgDrop),
     imu_raw |-> Trim(w.imu_raw, ImuCap, ImuDrop),
     temp |-> Trim(w.temp, ScalarCap, ScalarDrop),
     voltage |-> Trim(w.voltage, ScalarCap, ScalarDrop),
     activity |-> Trim(w.activity, ScalarCap, ScalarDrop),
     imu_converted |-> Trim(w.imu_converted, ImuCap, ImuDrop),
     HR |-> Trim(w.HR, ScalarCap, ScalarDrop),
     SPO2 |-> Trim(w.SPO2, ScalarCap, ScalarDrop)]

split_data(w, batch) ==
    [w EXCEPT !.ppg = @ + batch.ppg, !.imu_raw = @ + batch.imu,
              !.temp = @ + batch.temp, !.voltage = @ + batch.voltage]

\* appends one heart rate and one SpO2; KeyError without a ppg window,
\* ValueError from filtfilt on a window of at most 21 rows
ppg_analysis(w) == [w EXCEPT !.HR = @ + 1, !.SPO2 = @ + 1]

\* recomputes the converted window from the raw one and appends one activity
\* level; KeyError without an imu window, IndexError if row -119 is missing
imu_window(w) == [w EXCEPT !.imu_converted = w.imu_raw, !.activity = @ + 1]

\* the windows after the try block of data_processing and how it ended
Iteration(w, batch, signal_ok) ==
    LET w1 == split_data(w, batch)
        w2 == ppg_analysis(w1)
        w3 == imu_window(w2)
    IN  IF w1.ppg = 0 THEN [w |-> w1, end |-> "KeyError"]
        ELSE IF w1.ppg <= PadLen THEN [w |-> w1, end |-> "ValueError"]
        ELSE IF w2.imu_raw = 0 THEN [w |-> w2, end |-> "KeyError"]
        ELSE IF w2.imu_raw < ActivityRows - 1 THEN [w |-> w2, end |-> "IndexError"]
        ELSE IF ~signal_ok THEN [w |-> w3, end |-> "BadSignalWarning"]
        ELSE IF w3.temp = 0 THEN [w |-> w3, end |-> "KeyError"]
        ELSE [w |-> delete_old_data(w3), end |-> "trimmed"]

\* one iteration of the loop body of data_processing for the patch
DspIteration(batch, signal_ok) ==
    /\ aux.dsp_state \in {"idle", "trimmed", "skipped"}
    /\ aux.ticks < MaxTicks
    /\ LET r == Iteration(aux.window, batch, signal_ok)
       IN  aux' = [aux EXCEPT
                     !.window = r.w,
                     !.dsp_state = IF r.end = "trimmed" THEN "trimmed"
                                   ELSE IF Caught(r.end) THEN "skipped" ELSE "dead",
                     !.ticks = @ + 1]
    /\ UNCHANGED coreVars

SpecWindow ==
    InitAtRest /\ [][\E batch \in Batches, signal_ok \in BOOLEAN :
                        DspIteration(batch, signal_ok)]_vars

\* C13: immediately after delete_old_data every window of the patch is within
\* its cap, whatever the windows held before the trim.
C13_WithinCaps ==
    aux.dsp_state = "trimmed" =>
        /\ aux.window.ppg <= PpgCap
        /\ aux.window.imu_raw <= ImuCap
        /\ aux.window.imu_converted <= ImuCap
        /\ aux.window.temp <= ScalarCap
        /\ aux.window.voltage <= ScalarCap
        /\ aux.window.activity <= ScalarCap
        /\ aux.window.HR <= ScalarCap
        /\ aux.window.SPO2 <= ScalarCap

(***************************************************************************)
(* Activity detection (imu_conversion).  A raw imu row is                  *)
(* <<gx, gy, gz, ax, ay, az>>; the conversion multiplies the acceleration  *)
(* columns by 0.000598, so that                                            *)
(*   sqrt(cx^2 + cy^2 + cz^2) > 12.0  iff  ax^2 + ay^2 + az^2 > 144 / 0.000598^2 *)
(* and 144 / 0.000598^2 = 402680059.5...                                   *)
(***************************************************************************)
MaxImuRows == 122
AccelThresholdSq == 402680059

\* a patch at rest (gravity only, 9.8 m/s^2) and a patch in motion (12.2 m/s^2)
QuietRow == <<0, 0, 0, 0, 0, 16384>>
MovingRow == <<0, 0, 0, 0, 0, 20480>>

\* x[k] of a Python sequence of n elements, as an index from 1; 0 if out of range
PyIndex(n, k) ==
    IF k >= 0 THEN (IF k < n THEN k + 1 ELSE 0)
    ELSE (IF -k <= n THEN n + k + 1 ELSE 0)

\* sqrt(converted[3]^2 + converted[4]^2 + converted[5]^2) > 12.0 of a raw row
ExceedsThreshold(row) == row[4] * row[4] + row[5] * row[5] + row[6] * row[6] > AccelThresholdSq

\* rows read by abs_xl[i] = ...[-i, 3]... for i in range(120); reading a row
\* the window does not have (0 here) raises IndexError
rows_read(n) == {PyIndex(n, -i) : i \in 0 .. (ActivityRows - 1)}

\* the activity level imu_conversion appends: 1 if max(abs_xl) > 12.0
activity_of(imu) ==
    IF \E k \in rows_read(Len(imu)) : ExceedsThreshold(imu[k]) THEN 1 ELSE 0

imu_conversion ==
    /\ aux.dsp_state = "idle"
    /\ aux' = IF 0 \in rows_read(Len(aux.local_imu_raw))
              THEN [aux EXCEPT !.dsp_state = "dead"]
              ELSE [aux EXCEPT
                      !.dsp_state = "converted",
                      !.local_activity_level = Append(@, activity_of(aux.local_imu_raw))]
    /\ UNCHANGED coreVars

\* windows of quiet rows with at most one row in motion
InitImu ==
    /\ patient_mapping = <<>>
    /\ mac_address_update = <<>>
    /\ lastStep = NoStep
    /\ BleAtRest
    /\ script = 0
    /\ DataAtRest
    /\ LocksAtRest
    /\ \E n \in (ActivityRows - 2) .. MaxImuRows, a \in 0..MaxImuRows :
          aux = [AuxAtRest EXCEPT
                   !.local_imu_raw = [k \in 1..n |-> IF k = a THEN MovingRow ELSE QuietRow]]

SpecImu == InitImu /\ [][imu_conversion]_vars

\* C14: the activity level appended by imu_conversion is 0 iff no row among
\* the newest 120 rows of the converted window has a magnitude above 12.0,
\* and 1 otherwise.
C14_Newest120Rows ==
    aux.dsp_state = "converted" =>
        (aux.local_activity_level[Len(aux.local_activity_level)] = 0
            <=> \A k \in 1..Len(aux.local_imu_raw) :
                    k > Len(aux.local_imu_raw) - ActivityRows
                        => ~ExceedsThreshold(aux.local_imu_raw[k]))

(***************************************************************************)
(* Battery percentage (calc_battery_percentage and the default of          *)
(* write_back).  Percentages are kept in units of 1/10000.                 *)
(***************************************************************************)
MaxVoltages == 4
Scale == 10000
KneeVoltage == 3650
KneePercentage == 12
UpperSlope == 1760
LowerSlope == 342
DefaultPercentage == 100

Voltages == {3500, 3650, 3651, 4150}

\* the mutated curve: the knee belongs to the upper branch
battery_percentage_knee_above(voltage) ==
    IF voltage >= KneeVoltage
    THEN KneePercentage * Scale + UpperSlope * (voltage - KneeVoltage)
    ELSE LowerSlope * (voltage - KneeVoltage)

\* 12 + 0.176 * (voltage - 3650) if voltage > 3650 else 0.0342 * (voltage - 3650)
battery_percentage(voltage) ==
    IF voltage > KneeVoltage
    THEN KneePercentage * Scale + UpperSlope * (voltage - KneeVoltage)
    ELSE LowerSlope * (voltage - KneeVoltage)

\* local_battery_percentage after calc_battery_percentage
calc_battery_percentage(voltages, percentage) ==
    IF voltages # <<>> THEN <<battery_percentage(voltages[Len(voltages)])>>
    ELSE percentage

\* the batteryPercentage write_back puts into the Datapoint
write_back_battery(percentage) ==
    IF percentage # <<>> THEN percentage[1] ELSE DefaultPercentage * Scale

\* one iteration of the DSP on a batch with the voltage samples vs: split_data,
\* calc_battery_percentage, write_back
BatteryTick(vs) ==
    /\ Len(aux.local_voltage) + Len(vs) <= MaxVoltages
    /\ LET voltages == aux.local_voltage \o vs
           percentage == calc_battery_percentage(voltages, aux.local_battery_percentage)
       IN  aux' = [aux EXCEPT
                     !.local_voltage = voltages,
                     !.local_battery_percentage = percentage,
                     !.battery_emitted = <<write_back_battery(percentage)>>]
    /\ UNCHANGED coreVars

SpecBattery ==
    InitAtRest /\ [][\E vs \in {<<>>} \cup {<<v>> : v \in Voltages} : BatteryTick(vs)]_vars

MaxRatio == 120
Limb == 1000000

\* a_coeff = 1.5958422, b_coeff * 10^2 = -3465.96622, c_coeff * 10^4 = 1126898.759
a_coeff == <<15, 958422>>
b_coeff == <<-34659, -662200>>
c_coeff == <<11268987, 590000>>
SpO2Max == 100

Norm(x) == <<x[1] + (x[2] \div Limb), x[2] % Limb>>
Times(x, k) == Norm(<<x[1] * k, x[2] * k>>)
Plus(x, y) == Norm(<<x[1] + y[1], x[2] + y[2]>>)

\* a_coeff * R ** 2 + b_coeff * R + c_coeff for R = r / 100
Polynomial(r) == Plus(Plus(Times(Times(a_coeff, r), r), Times(b_coeff, r)), c_coeff)

\* Python's round() of x / 10^11: to the nearest integer, a tie to the even one
PyRound(x) ==
    LET q == (x[1] + 50000) \div 100000
    IN  IF (x[1] + 50000) % 100000 = 0 /\ x[2] = 0 /\ q % 2 = 1 THEN q - 1 ELSE q

\* the mutated computation: no clipping
SPO2_unclipped(r) == PyRound(Polynomial(r))

\* SPO2 = round(...); if SPO2 > 100: SPO2 = 100
SPO2(r) ==
    IF PyRound(Polynomial(r)) > SpO2Max THEN SpO2Max ELSE PyRound(Polynomial(r))

\* the tail of ppg_analysis: compute SPO2 from R and store it
ppg_analysis_spo2 ==
    /\ aux.local_SPO2 = <<>>
    /\ aux' = [aux EXCEPT !.local_SPO2 = Append(@, SPO2(aux.ratio))]
    /\ UNCHANGED coreVars

InitSpo ==
    /\ patient_mapping = <<>>
    /\ mac_address_update = <<>>
    /\ lastStep = NoStep
    /\ BleAtRest
    /\ script = 0
    /\ DataAtRest
    /\ LocksAtRest
    /\ \E r \in 0..MaxRatio : aux = [AuxAtRest EXCEPT !.ratio = r]

SpecSpo == InitSpo /\ [][ppg_analysis_spo2]_vars

\* C16 as stated: the stored SpO2 never exceeds 100, is 80 for R = 1 and is
\* 100 for R = 0.4.
C16_SpO2Stated ==
    aux.local_SPO2 # <<>> =>
        /\ aux.local_SPO2[1] <= 100
        /\ aux.ratio = 100 => aux.local_SPO2[1] = 80
        /\ aux.ratio = 40 => aux.local_SPO2[1] = 100

\* C16: the stored SpO2 never exceeds 100; it is 80 for R = 1, 99 for R = 0.4
\* (99.08 is not clipped), 100 unclipped for R = 0.37 and 100 by clipping for
\* R = 0.35 (100.75 rounds to 101) and for R = 0.3 (102).
C16_SpO2 ==
    aux.local_SPO2 # <<>> =>
        /\ aux.local_SPO2[1] <= 100
        /\ aux.ratio = 100 => aux.local_SPO2[1] = 80
        /\ aux.ratio = 40 => aux.local_SPO2[1] = 99
        /\ aux.ratio \in {30, 35, 37} => aux.local_SPO2[1] = 100
        /\ aux.ratio = 37 => Polynomial(aux.ratio)[1] = 10008427
        /\ aux.ratio = 35 => Polynomial(aux.ratio)[1] = 10075448

C16_Witness ==
    /\ aux.ratio = 40
    /\ aux.local_SPO2 = <<99>>

\* C17: in pass-through mode a tick takes everything unprocessed_data holds
\* and resets it, and after the tick processed_data holds, for every patch of
\* the batch, exactly the samples taken, in their order and unmodified.
C17_PassThrough ==
    [][/\ (dsp_pc = "swap" /\ dsp_pc' = "store") =>
            /\ current_data' = unprocessed_data
            /\ unprocessed_data' = <<>>
       /\ (dsp_pc = "store" /\ dsp_pc' = "check") =>
            \A i \in 1..Len(current_data) :
                /\ DHas(processed_data', current_data[i][1])
                /\ DGet(processed_data', current_data[i][1]) = current_data[i][2]
                /\ \A j \in 1..Len(current_data[i][2]) :
                      current_data[i][2][j] \in {RawSample(s) : s \in 1..delivered}]_vars

\* a pass-through tick has handed on a batch with samples of two patches
C17_Witness ==
    /\ ~PROCESS_DATA
    /\ dsp_pc = "check"
    /\ Len(current_data) = 2
    /\ processed_data = current_data
    /\ unprocessed_data = <<>>

(***************************************************************************)
(* The sinks.  The DSP appends Datapoints to processed_data (write_back);  *)
(* a sink loop takes the dict and works through its keys.  The two sinks   *)
(* never run together, so they share sink_pc, local_data and sink_i.       *)
(***************************************************************************)
\* the data-plane variables a sink leaves alone
sinkData == <<unprocessed_data, unprocessed_data_lock, PROCESS_DATA, dsp_pc, dsp_i,
              current_data, released>>
sinkRest == <<mapVars, bleVars, script, lockVars, sinkData>>

\* write_back: the DSP appends a Datapoint for address under processed_data_lock
WriteBack(address) ==
    /\ delivered < MaxSamples
    /\ processed_data' = AppendTo(processed_data, address, Datapoint(delivered + 1))
    /\ delivered' = delivered + 1
    /\ aux' = [aux EXCEPT !.origin = Append(@, address)]
    /\ UNCHANGED <<handed, sinkRest>>

(***************************************************************************)
(* Local mode: local_logging_loop and LocalLogger.write_log.  A row of a   *)
(* file is the list of Datapoints written.                                 *)
(***************************************************************************)
\* `if not Globals.processed_data: sleep(...)  else:`
LogCheck ==
    /\ aux.sink_pc = "check"
    /\ processed_data # <<>>
    /\ aux' = [aux EXCEPT !.sink_pc = "swap"]
    /\ UNCHANGED <<processed_data, delivered, handed, sinkRest>>

\* the `with` block, and LocalLogger(local_data, ...)
LogSwap ==
    /\ aux.sink_pc = "swap"
    /\ aux' = [aux EXCEPT !.local_data = processed_data, !.sink_i = 1, !.sink_pc = "write"]
    /\ processed_data' = <<>>
    /\ UNCHANGED <<delivered, handed, sinkRest>>

\* csv.DictWriter(log, fieldnames=[mac_address]).writerow(data): one cell, the
\* value under mac_address; ValueError if data has a key that is no fieldname
writerow_raises(data, mac_address) == \E k \in DKeys(data) : k # mac_address

\* open(file_name, 'a') creates the file
Opened(fs, mac_address) ==
    IF DHas(fs, mac_address) THEN fs ELSE Append(fs, <<mac_address, <<>>>>)

\* Logger.write_log(macAddress) for the next macAddress
LogWrite ==
    /\ aux.sink_pc = "write"
    /\ aux.sink_i <= Len(aux.local_data)
    /\ LET mac_address == aux.local_data[aux.sink_i][1]
       IN  aux' = IF writerow_raises(aux.local_data, mac_address)
                  THEN [aux EXCEPT !.files = Opened(@, mac_address), !.sink_pc = "dead"]
                  ELSE [aux EXCEPT
                          !.files = AppendTo(@, mac_address,
                                             DGet(aux.local_data, mac_address)),
                          !.sink_i = @ + 1]
    /\ UNCHANGED <<processed_data, delivered, handed, sinkRest>>

\* the for loop is over: back to the check
LogDone ==
    /\ aux.sink_pc = "write"
    /\ aux.sink_i > Len(aux.local_data)
    /\ aux' = [aux EXCEPT !.sink_pc = "check"]
    /\ UNCHANGED <<processed_data, delivered, handed, sinkRest>>

NextLog ==
    \/ \E address \in PatchIds : WriteBack(address)
    \/ LogCheck
    \/ LogSwap
    \/ LogWrite
    \/ LogDone

SpecLog == InitAtRest /\ [][NextLog]_vars

\* C18: the loop survives every batch, and once it is through a batch every
\* Datapoint the DSP emitted is either still in processed_data or in exactly
\* one row of the file of its patch; a batch adds one row per patch in it.
C18_OneRowPerPatch ==
    /\ aux.sink_pc # "dead"
    /\ aux.sink_pc = "check" =>
          \A s \in 1..delivered :
              \/ s \in SamplesIn(processed_data)
              \/ \E address \in PatchIds :
                    LET rows == IF DHas(aux.files, address) THEN DGet(aux.files, address)
                                ELSE <<>>
                    IN  /\ \E row \in 1..Len(rows) : s \in Stamps(rows[row])
                        /\ \A r1, r2 \in 1..Len(rows) :
                              (s \in Stamps(rows[r1]) /\ s \in Stamps(rows[r2])) => r1 = r2

(***************************************************************************)
(* Remote mode: publishing_loop.  For every key of the dict taken it looks *)
(* up the accesstoken, appends the firmware record and publishes the list. *)
(***************************************************************************)
\* Mapping.get_matching_device: the accesstoken of the patch, <<>> for None
get_matching_device(mac_address, current_device_mapping) ==
    IF DHas(current_device_mapping, mac_address)
    THEN <<DGet(current_device_mapping, mac_address)>>
    ELSE <<>>

\* local_data[macAddress], with {"firmwareVersion": connected_devices[macAddress]}
\* appended if macAddress is in connected_devices
assigned_data(data, mac_address, devices) ==
    IF DHas(devices, mac_address)
    THEN Append(data, [firmwareVersion |-> DGet(devices, mac_address)])
    ELSE data

\* DataLogger.publish: every record of the list, in order, under the token
Publish(accesstoken, records) == [j \in 1..Len(records) |-> <<accesstoken, records[j]>>]

\* `if not Globals.processed_data: sleep(...)  else:`
PubCheck ==
    /\ aux.sink_pc = "check"
    /\ processed_data # <<>>
    /\ aux' = [aux EXCEPT !.sink_pc = "swap"]
    /\ UNCHANGED <<processed_data, delivered, handed, sinkRest>>

\* the `with` block: take the dict and leave an empty one
PubSwap ==
    /\ aux.sink_pc = "swap"
    /\ aux' = [aux EXCEPT !.local_data = processed_data, !.sink_i = 1,
                          !.sink_pc = "publish"]
    /\ handed' = Handed(handed, SamplesIn(processed_data))
    /\ processed_data' = <<>>
    /\ UNCHANGED <<delivered, sinkRest>>

\* one iteration of `for macAddress in local_data`
PubPatch ==
    /\ aux.sink_pc = "publish"
    /\ aux.sink_i <= Len(aux.local_data)
    /\ LET macAddress == aux.local_data[aux.sink_i][1]
           accesstoken == get_matching_device(macAddress, patient_mapping)
       IN  aux' = [aux EXCEPT
                     !.published =
                        IF accesstoken # <<>>
                        THEN @ \o Publish(accesstoken[1],
                                          assigned_data(aux.local_data[aux.sink_i][2],
                                                        macAddress, connected_devices))
                        ELSE @,
                     !.sink_i = @ + 1]
    /\ UNCHANGED <<processed_data, delivered, handed, sinkRest>>

\* the for loop is over: back to the check
PubDone ==
    /\ aux.sink_pc = "publish"
    /\ aux.sink_i > Len(aux.local_data)
    /\ aux' = [aux EXCEPT !.sink_pc = "check"]
    /\ UNCHANGED <<processed_data, delivered, handed, sinkRest>>

\* patches bound to patients of their own or unbound; every patch streams, its
\* firmware version read (and then in connected_devices) or not
InitPub ==
    /\ patient_mapping \in {m \in Dicts(PatchIds, PatientIds) :
                              \A i, j \in DOMAIN m : m[i][2] = m[j][2] => i = j}
    /\ mac_address_update = <<>>
    /\ lastStep = NoStep
    /\ connected_devices \in Dicts(PatchIds, {FirmwareVersion})
    /\ wpc = [w \in Workers |-> "poll"]
    /\ waddr = [w \in Workers |-> "None"]
    /\ wlink = [w \in Workers |-> FALSE]
    /\ wremove = [w \in Workers |-> FALSE]
    /\ script = 0
    /\ DataAtRest
    /\ LocksAtRest
    /\ aux = AuxAtRest

NextPub ==
    \/ \E address \in PatchIds : WriteBack(address)
    \/ PubCheck
    \/ PubSwap
    \/ PubPatch
    \/ PubDone

SpecPub == InitPub /\ [][NextPub]_vars

\* C19: every Datapoint is taken by exactly one iteration of the sink; once
\* an iteration is over, the Datapoints taken of a bound patch have been
\* published under its PatientId once each and in order, each followed by a
\* firmware record with no other firmware record before the next Datapoint,
\* and no Datapoint of an unbound patch has been published.
C19_PublishedOnce ==
    LET IsDatapoint(record) == "ts" \in DOMAIN record
        PublishedUnder(accesstoken) ==
            LET Mine(m) == m[1] = accesstoken
                msgs == SelectSeq(aux.published, Mine)
            IN  [j \in 1..Len(msgs) |-> msgs[j][2]]
    IN
    /\ \A s \in 1..delivered :
          /\ handed[s] <= 1
          /\ handed[s] = 0 => s \in SamplesIn(processed_data)
    /\ aux.sink_pc = "check" =>
          /\ \A address \in PatchIds :
                DHas(patient_mapping, address) =>
                    LET records == PublishedUnder(DGet(patient_mapping, address))
                    IN  /\ \A s \in 1..delivered :
                              (handed[s] = 1 /\ aux.origin[s] = address) =>
                                  Cardinality({j \in 1..Len(records) :
                                                  records[j] = Datapoint(s)}) = 1
                        /\ \A j, k \in 1..Len(records) :
                              (j < k /\ IsDatapoint(records[j]) /\ IsDatapoint(records[k]))
                                  => records[j].ts < records[k].ts
                        /\ \A j \in 1..Len(records) :
                              IsDatapoint(records[j]) =>
                                  \E k \in (j + 1)..Len(records) : ~IsDatapoint(records[k])
                        /\ \A j \in 1..(Len(records) - 1) :
                              ~IsDatapoint(records[j]) => IsDatapoint(records[j + 1])
          /\ \A j \in 1..Len(aux.published) :
                IsDatapoint(aux.published[j][2]) =>
                    /\ DHas(patient_mapping, aux.origin[aux.published[j][2].ts])
                    /\ DGet(patient_mapping, aux.origin[aux.published[j][2].ts])
                          = aux.published[j][1]

(***************************************************************************)
(* The config byte: smartpatch_config_update of the mapping thread and     *)
(* search_config_update of the Streaming workers.  The sleeps all last     *)
(* 30 s, so they end in the order in which they began.                     *)
(***************************************************************************)
MaxConfig == 2
MaxPublications == 2

\* Mapping.smartpatch_config_update: the mapping thread publishes a config byte
ConfigPublish(update_content) ==
    /\ aux.config_published < MaxPublications
    /\ aux' = [aux EXCEPT !.smartpatch_config_update = update_content,
                          !.config_resets = 0,
                          !.config_published = @ + 1]
    /\ UNCHANGED coreVars

\* search_config_update up to the write: nothing to do if the byte is 0
ConfigRead(w) ==
    /\ aux.cfg_pc[w] = "loop"
    /\ aux' = IF aux.smartpatch_config_update # 0
              THEN [aux EXCEPT !.new_config[w] = aux.smartpatch_config_update,
                               !.cfg_pc[w] = "write"]
              ELSE aux
    /\ UNCHANGED coreVars

\* await device.write_gatt_char(...): done or BleakError (logged); the sleep begins
ConfigWrite(w, ok) ==
    /\ aux.cfg_pc[w] = "write"
    /\ aux' = [aux EXCEPT !.pushed[w] = IF ok THEN aux.new_config[w] ELSE @,
                          !.cfg_pc[w] = "sleep",
                          !.config_window = Append(@, w)]
    /\ UNCHANGED coreVars

\* the end of the sleep of w, which began before every other sleep still on:
\* Globals.smartpatch_config_update = 0
ConfigReset(w) ==
    /\ aux.cfg_pc[w] = "sleep"
    /\ aux.config_window # <<>>
    /\ w = Head(aux.config_window)
    /\ aux' = [aux EXCEPT !.smartpatch_config_update = 0,
                          !.config_resets = @ + 1,
                          !.cfg_pc[w] = "loop",
                          !.config_window = Tail(@)]
    /\ UNCHANGED coreVars

\* every worker streams from a patch of its own
InitConfig ==
    /\ patient_mapping = <<>>
    /\ mac_address_update = <<>>
    /\ lastStep = NoStep
    /\ \E f \in [Workers -> PatchIds] :
          /\ \A v, w \in Workers : f[v] = f[w] => v = w
          /\ waddr = f
          /\ connected_devices = [w \in Workers |-> <<f[w], FirmwareVersion>>]
    /\ wpc = [w \in Workers |-> "loop"]
    /\ wlink = [w \in Workers |-> TRUE]
    /\ wremove = [w \in Workers |-> FALSE]
    /\ script = 0
    /\ DataAtRest
    /\ LocksAtRest
    /\ aux = AuxAtRest

NextConfig ==
    \/ \E update_content \in 1..MaxConfig : ConfigPublish(update_content)
    \/ \E w \in Workers : ConfigRead(w)
    \/ \E w \in Workers, ok \in BOOLEAN : ConfigWrite(w, ok)
    \/ \E w \in Workers : ConfigReset(w)

SpecConfig == InitConfig /\ [][NextConfig]_vars

\* C20: a published config byte is not reset to 0 while a worker that is
\* pushing it is still in its 30-second window, and it is reset at most once.
C20_ResetOnceByLast ==
    /\ aux.smartpatch_config_update = 0 =>
          {w \in Workers : aux.cfg_pc[w] \in {"write", "sleep"}} = {}
    /\ aux.config_resets <= 1

(***************************************************************************)
(* data_processing with its windows: the tick of the data path, each       *)
(* address of the batch run through the pipeline on the windows of its     *)
(* patch.  What the samples of a batch add to the windows is an input.     *)
(***************************************************************************)
\* `with Globals.unprocessed_data_lock:` of data_processing
TickAcquire ==
    /\ DspAcquire
    /\ aux' = [aux EXCEPT !.tick_log = <<>>]
    /\ UNCHANGED <<mapVars, bleVars, script, lockVars>>

\* one iteration of `for address in Globals.unprocessed_data`
TickAddress(batch, signal_ok) ==
    /\ dsp_pc = "loop"
    /\ dsp_i <= Len(unprocessed_data)
    /\ LET address == unprocessed_data[dsp_i][1]
           r == Iteration(aux.windows[address], batch, signal_ok)
       IN  /\ DspAddress(IF r.end = "trimmed" THEN "ok" ELSE r.end)
           /\ aux' = [aux EXCEPT !.windows[address] = r.w,
                                 !.tick_log = Append(@, <<address, r.end>>)]
    /\ UNCHANGED <<mapVars, bleVars, script, lockVars>>

\* process mode; every worker streams from a patch of its own
InitTick ==
    /\ InitData
    /\ PROCESS_DATA

NextTick ==
    \/ \E w \in Workers : Callback(w) /\ UNCHANGED dataRest
    \/ DspCheck /\ UNCHANGED dataRest
    \/ TickAcquire
    \/ \E batch \in Batches, signal_ok \in BOOLEAN : TickAddress(batch, signal_ok)
    \/ DspReset /\ UNCHANGED dataRest
    \/ SinkSwap /\ UNCHANGED dataRest

SpecTick == InitTick /\ [][NextTick]_vars

\* C21: when heartpy rejects the signal of a patch in a tick, no Datapoint is
\* appended for that patch, none of its windows loses a row, the loop goes on
\* to the next address of the batch, and the thread lives on to the reset
\* that ends the tick.
C21_RejectionSkipsPatch ==
    [][(/\ Len(aux'.tick_log) = Len(aux.tick_log) + 1
        /\ aux'.tick_log[Len(aux'.tick_log)][2] = "BadSignalWarning") =>
            LET address == unprocessed_data[dsp_i][1]
                before == aux.windows[address]
                after == aux'.windows[address]
            IN  /\ aux'.tick_log[Len(aux'.tick_log)][1] = address
                /\ processed_data' = processed_data
                /\ \A f \in DOMAIN before : after[f] >= before[f]
                /\ \A x \in PatchIds \ {address} : aux'.windows[x] = aux.windows[x]
                /\ dsp_pc' = "loop"
                /\ dsp_i' = dsp_i + 1
                /\ unprocessed_data_lock' = "Processing_Thread"]_vars

\* a tick is over in which X1 was rejected and then X2 was processed: only
\* X2 has a Datapoint
C21_Witness ==
    /\ dsp_pc = "check"
    /\ released.valid
    /\ Len(aux.tick_log) = 2
    /\ aux.tick_log[1][2] = "BadSignalWarning"
    /\ aux.tick_log[2][2] = "trimmed"
    /\ DKeys(processed_data) = {aux.tick_log[2][1]}

(***************************************************************************)
(* The worker pool under load: the start-up roster has NumMapPatches       *)
(* patches, one more than there are workers, and at most MaxEvents         *)
(* control-plane events follow it.                                         *)
(***************************************************************************)
MaxEvents == 1

\* the roster X1 -> P1, X2 -> P2, X3 -> P1, ...
Roster ==
    [i \in 1..NumMapPatches |->
        <<"X" \o ToString(i), "P" \o ToString(((i - 1) % NumPatients) + 1)>>]

InitPool ==
    /\ patient_mapping = Roster
    /\ mac_address_update = SeedIntents(DKeyList(patient_mapping), <<>>)
    /\ lastStep = NoStep
    /\ BleAtRest
    /\ script = 0
    /\ DataAtRest
    /\ LocksAtRest
    /\ aux = AuxAtRest

\* on_update: one more event from the control plane
PoolEvent ==
    /\ script < MaxEvents
    /\ \/ \E p \in PatientIds, x \in MapPatchIds : OnConnected(p, x)
       \/ \E x \in MapPatchIds : OnDisconnected(x)
    /\ lastStep' = NoStep
    /\ script' = script + 1
    /\ UNCHANGED <<bleVars, dataVars, lockVars, aux>>

NextPool ==
    \/ PoolEvent
    \/ \E w \in Workers : WorkerStep(w) /\ UNCHANGED restVars
    \/ \E w \in Workers : LinkLost(w) /\ UNCHANGED restVars
    \/ Janitor /\ UNCHANGED restVars

SpecPool == InitPool /\ [][NextPool]_vars

\* C22: the patches with an open link are never more than the workers, and a
\* Connect intent for a patch no worker is on leaves mac_address_update only
\* when an Idle worker claims it in its poll or when the control plane
\* replaces it by a Disconnect intent.
C22_SurplusWaits ==
    [][/\ Cardinality(OpenLinks') <= NumWorkers
       /\ \A x \in MapPatchIds :
             (/\ Lookup(mac_address_update, x) = "add"
              /\ \A w \in Workers : waddr[w] # x
              /\ Lookup(mac_address_update', x) # "add") =>
                 \/ \E w \in Workers :
                       /\ wpc[w] = "poll"
                       /\ wpc'[w] = "connecting"
                       /\ waddr'[w] = x
                 \/ /\ Lookup(mac_address_update', x) = "remove"
                    /\ UNCHANGED bleVars]_vars

\* every worker has a link open, each to a patch of its own, and a Connect
\* intent for another patch waits in the mailbox
C22_Witness ==
    /\ \A w \in Workers : wpc[w] \in LinkPcs /\ wlink[w]
    /\ Cardinality(OpenLinks) = NumWorkers
    /\ \E x \in MapPatchIds :
          /\ Lookup(mac_address_update, x) = "add"
          /\ \A w \in Workers : waddr[w] # x

\* C23: a pass of the janitor removes every Disconnect intent whose patch is
\* not a key of connected_devices, whatever other Disconnect intents there
\* are.  (A step that changes mac_address_update and neither a worker nor
\* the count of control-plane events is a pass of the janitor.)
C23_EveryInvalidRemoved ==
    [][(/\ mac_address_update' # mac_address_update
        /\ UNCHANGED <<bleVars, script>>) =>
            \A x \in MapPatchIds :
                (/\ Lookup(mac_address_update, x) = "remove"
                 /\ ~DHas(connected_devices, x)) => ~DHas(mac_address_update', x)]_vars

\* C24: a connect attempt that fails leaves the worker Idle; after a bus
\* error it sleeps 2 s and then posts the Connect intent of its patch again,
\* after a timeout or adapter error it posts nothing: a worker's step makes
\* a Connect intent appear only as that re-post.
C24_RepostOnBusErrorOnly ==
    [][\A w \in Workers :
          /\ (wpc[w] = "connecting" /\ wpc'[w] \in {"backoff", "sleep2"}) =>
                /\ mac_address_update' = mac_address_update
                /\ ~wlink'[w]
                /\ wpc'[w] = "sleep2" => waddr'[w] = "None"
          /\ (wpc[w] = "backoff" /\ wpc'[w] # "backoff" /\ wpc'[w] # "dead") =>
                /\ wpc'[w] = "sleep2"
                /\ waddr'[w] = "None"
                /\ ~wlink'[w]
                /\ mac_address_update' = DSet(mac_address_update, waddr[w], "add")
          /\ \A x \in MapPatchIds :
                (/\ Lookup(mac_address_update', x) = "add"
                 /\ Lookup(mac_address_update, x) # "add"
                 /\ wpc' # wpc) =>
                    \E v \in Workers : wpc[v] = "backoff" /\ waddr[v] = x]_vars

\* with no event from the control plane, the intent of X1 has been claimed
\* and come back behind the others, and every worker is Idle again
C24_Witness ==
    /\ script = 0
    /\ mac_address_update = <<<<"X2", "add">>, <<"X3", "add">>, <<"X1", "add">>>>
    /\ \A w \in Workers : wpc[w] = "sleep2" /\ waddr[w] = "None" /\ ~wlink[w]

(***************************************************************************)
(* The housekeeping loop of the Streaming workers in time.  Time passes in *)
(* the sleeps only, a second per step; what a task does between two sleeps *)
(* takes none.  The clock stops when an intent has waited MaxAge seconds.   *)
(***************************************************************************)
MaxAge == 3
HkSleep == 1
ConfigSleep == 30

\* `await asyncio.sleep(1)` is over: search_remove_request, then
\* search_config_update up to its return or to the write
HkWake(w) ==
    /\ aux.timer[w] = 0
    /\ Housekeeping(w)
    /\ aux' = IF aux.smartpatch_config_update # 0
              THEN [aux EXCEPT !.new_config[w] = aux.smartpatch_config_update,
                               !.cfg_pc[w] = "write"]
              ELSE aux
    /\ UNCHANGED <<script, dataVars, lockVars>>

\* write_gatt_char is done or has failed (BleakError, logged);
\* `await asyncio.sleep(30)` begins
HkConfigWrite(w) ==
    /\ aux.cfg_pc[w] = "write"
    /\ aux' = [aux EXCEPT !.cfg_pc[w] = "sleep", !.timer[w] = ConfigSleep]
    /\ UNCHANGED coreVars

\* the 30 s are over: Globals.smartpatch_config_update = 0, and return
HkConfigReset(w) ==
    /\ aux.cfg_pc[w] = "sleep"
    /\ aux.timer[w] = 0
    /\ aux' = [aux EXCEPT !.smartpatch_config_update = 0, !.cfg_pc[w] = "loop"]
    /\ UNCHANGED coreVars

\* the condition of the while loop, once search_config_update has returned:
\* into the next `await asyncio.sleep(1)`, or out of the loop
HkLoopCheck(w) ==
    /\ aux.cfg_pc[w] = "loop"
    /\ LoopCheck(w)
    /\ aux' = [aux EXCEPT !.timer[w] = HkSleep]
    /\ UNCHANGED <<script, dataVars, lockVars>>

\* Disconnected for the patch of a Streaming worker arrives, once
HkDisconnected(x) ==
    /\ \A y \in PatchIds : aux.age[y] < 0
    /\ OnDisconnected(x)
    /\ lastStep' = NoStep
    /\ aux' = [aux EXCEPT !.age[x] = 0]
    /\ UNCHANGED <<bleVars, script, dataVars, lockVars>>

\* Mapping.smartpatch_config_update: the mapping thread publishes a config byte
HkConfigPublish(update_content) ==
    /\ aux.config_published < MaxPublications
    /\ aux' = [aux EXCEPT !.smartpatch_config_update = update_content,
                          !.config_published = @ + 1]
    /\ UNCHANGED coreVars

\* a task has something to do before time passes
Due(w) ==
    \/ wpc[w] = "hk_sleep" /\ aux.timer[w] = 0
    \/ wpc[w] = "loop" /\ aux.cfg_pc[w] = "loop"
    \/ aux.cfg_pc[w] = "write"
    \/ aux.cfg_pc[w] = "sleep" /\ aux.timer[w] = 0

\* a second passes
Second ==
    /\ \A x \in PatchIds : aux.age[x] < MaxAge
    /\ \A w \in Workers : ~Due(w)
    /\ aux' = [aux EXCEPT
                 !.timer = [w \in Workers |-> IF @[w] > 0 THEN @[w] - 1 ELSE 0],
                 !.age = [x \in PatchIds |-> IF @[x] >= 0 THEN @[x] + 1 ELSE @[x]]]
    /\ UNCHANGED coreVars

NextHk ==
    \/ \E w \in Workers : HkWake(w)
    \/ \E w \in Workers : HkConfigWrite(w)
    \/ \E w \in Workers : HkConfigReset(w)
    \/ \E w \in Workers : HkLoopCheck(w)
    \/ \E x \in PatchIds : HkDisconnected(x)
    \/ \E update_content \in 1..MaxConfig : HkConfigPublish(update_content)
    \/ Second

SpecHk == InitConfig /\ [][NextHk]_vars

\* C25: a Disconnect intent for the patch of a Streaming worker is never
\* older than one housekeeping period while the worker is still Streaming,
\* whether a config byte is being propagated or not.
C25_LeavesWithinPeriod ==
    \A w \in Workers :
        (/\ wpc[w] \in StreamingPcs
         /\ wlink[w]
         /\ aux.age[waddr[w]] >= 0
         /\ Lookup(mac_address_update, waddr[w]) = "remove")
            => aux.age[waddr[w]] <= HkSleep

\* C26: a worker that leaves Streaming, on its Disconnect intent or on a lost
\* link, runs the disconnect flow before it is Idle: stop_notify, then the
\* link close, then the removal of its patch's entry, so that it is Idle
\* again only with no entry for the patch it left.
C26_DisconnectFlowOnLeave ==
    [][\A w \in Workers :
          /\ (wpc[w] \in StreamingPcs /\ wpc'[w] \notin StreamingPcs \cup {"dead"}) =>
                wpc'[w] = "stop_notify"
          /\ (wpc[w] = "stop_notify" /\ wpc'[w] \notin {"stop_notify", "dead"}) =>
                wpc'[w] = "closing"
          /\ (wpc[w] = "closing" /\ wpc'[w] \notin {"closing", "dead"}) =>
                /\ wpc'[w] = "sleep2"
                /\ ~wlink'[w]
                /\ ~DHas(mac_address_update', waddr[w])]_vars

\* C27: the poll of an Idle worker either takes a Connect entry and removes
\* it from mac_address_update in the same step, which no other worker takes
\* part in, or finds none, returns 'None' and changes nothing: an intent
\* posted once is never claimed twice.
C27_ClaimedOnce ==
    [][\A w \in Workers :
          (wpc[w] = "poll" /\ wpc'[w] \notin {"poll", "dead"}) =>
              /\ \A v \in Workers \ {w} : wpc'[v] = wpc[v] /\ waddr'[v] = waddr[v]
              /\ IF "add" \in DValues(mac_address_update)
                 THEN /\ wpc'[w] = "connecting"
                      /\ Lookup(mac_address_update, waddr'[w]) = "add"
                      /\ ~DHas(mac_address_update', waddr'[w])
                      /\ \A x \in MapPatchIds \ {waddr'[w]} :
                            Lookup(mac_address_update', x) = Lookup(mac_address_update, x)
                 ELSE /\ wpc'[w] = "sleep2"
                      /\ waddr'[w] = "None"
                      /\ mac_address_update' = mac_address_update]_vars

\* Connected{P1, X2} has left X2 as the only Connect intent; one worker has
\* claimed it, the other has polled since and found none
C27_Witness ==
    /\ script = 1
    /\ connected_devices = <<>>
    /\ mac_address_update = <<<<"X1", "remove">>, <<"X3", "remove">>>>
    /\ \E w \in Workers :
          /\ wpc[w] = "connecting"
          /\ waddr[w] = "X2"
          /\ \A v \in Workers \ {w} : wpc[v] = "sleep2" /\ waddr[v] = "None"

\* C28: whenever smartpatch_config_update is 0, no worker is between its read
\* of a nonzero config byte and the end of the write of that byte to its
\* patch.
C28_NoWritePending ==
    aux.smartpatch_config_update = 0 => \A w \in Workers : aux.cfg_pc[w] # "write"

\* C29: the guard of unprocessed_data is never held over a pipeline run: while
\* Processing_Thread holds unprocessed_data_lock, no address of the batch has
\* been run through the pipeline (split_data .. delete_old_data) inside that
\* critical section.
C29_NoPipelineUnderGuard ==
    unprocessed_data_lock = "Processing_Thread" => aux.tick_log = <<>>

\* a window of `before` rows holds after the trim the newest cap/2 rows if it
\* was over its cap, and its rows unchanged otherwise
KeepsHalf(before, after, cap) ==
    IF before > cap THEN after = cap \div 2 ELSE after = before

\* C30: an iteration that reaches delete_old_data leaves every window that was
\* over its cap with exactly cap/2 rows (2500 ppg, 1000 raw and 1000 converted
\* imu, 100 for temperature, voltage, activity, HR and SpO2) and every window
\* within its cap with the rows it had.
C30_KeepsHalfCap ==
    [][(aux'.ticks = aux.ticks + 1 /\ aux'.dsp_state = "trimmed") =>
          \E batch \in Batches :
              LET b == imu_window(ppg_analysis(split_data(aux.window, batch)))
                  a == aux'.window
              IN  /\ Iteration(aux.window, batch, TRUE).end = "trimmed"
                  /\ a = delete_old_data(b)
                  /\ KeepsHalf(b.ppg, a.ppg, PpgCap)
                  /\ KeepsHalf(b.imu_raw, a.imu_raw, ImuCap)
                  /\ KeepsHalf(b.imu_converted, a.imu_converted, ImuCap)
                  /\ KeepsHalf(b.temp, a.temp, ScalarCap)
                  /\ KeepsHalf(b.voltage, a.voltage, ScalarCap)
                  /\ KeepsHalf(b.activity, a.activity, ScalarCap)
                  /\ KeepsHalf(b.HR, a.HR, ScalarCap)
                  /\ KeepsHalf(b.SPO2, a.SPO2, ScalarCap)]_vars

(***************************************************************************)
(* Base-station configuration events.  The flags of Settings are set once, *)
(* by configure_basestation before any thread starts; the DSP thread has   *)
(* taken its mode from Settings.PROCESS_DATA when it started.               *)
(***************************************************************************)
BASESTATION_CONFIG_PARAMS_LIST ==
    {"publishToThingsboard", "saveRawData", "publishRawData", "processData",
     "localDataLogging"}

\* the flag of Settings that set_new_config sets from a key of the config dict
SettingOf(topic) ==
    CASE topic = "publishToThingsboard" -> "PUBLISH_TO_THINGSBOARD"
      [] topic = "saveRawData" -> "SAVE_RAW_DATA"
      [] topic = "publishRawData" -> "PUBLISH_RAW_DATA"
      [] topic = "processData" -> "PROCESS_DATA"
      [] topic = "localDataLogging" -> "LOCAL_DATA_LOGGING"

\* the mutated handler: the received value is stored in Settings
basestation_config_update_sets_flag(a, topic, value) ==
    [a EXCEPT !.Settings[SettingOf(topic)] = value, !.console = <<topic, value>>]

\* basestation_config_update: the update is printed with the advice to restart
basestation_config_update(a, topic, value) ==
    [a EXCEPT !.console = <<topic, value>>]

\* on_update for a topic of BASESTATION_CONFIG_PARAMS_LIST
OnBasestationConfig(topic, value) ==
    /\ topic \in BASESTATION_CONFIG_PARAMS_LIST
    /\ aux' = basestation_config_update(aux, topic, value)
    /\ UNCHANGED coreVars

\* on_update for the topic SmartPatchConfig
OnSmartPatchConfig(update_content) ==
    /\ aux' = [aux EXCEPT !.smartpatch_config_update = update_content]
    /\ UNCHANGED coreVars

\* the flags as configure_basestation left them, the DSP in the mode it was
\* started in, nothing received yet
InitSettings ==
    /\ patient_mapping = <<>>
    /\ mac_address_update = <<>>
    /\ lastStep = NoStep
    /\ connected_devices = <<>>
    /\ wpc = [w \in Workers |-> "poll"]
    /\ waddr = [w \in Workers |-> "None"]
    /\ wlink = [w \in Workers |-> FALSE]
    /\ wremove = [w \in Workers |-> FALSE]
    /\ script = 0
    /\ unprocessed_data = <<>>
    /\ processed_data = <<>>
    /\ unprocessed_data_lock = "none"
    /\ dsp_pc = "check"
    /\ dsp_i = 1
    /\ current_data = <<>>
    /\ delivered = 0
    /\ handed = [s \in 1..MaxSamples |-> 0]
    /\ released = [valid |-> FALSE, ud |-> <<>>]
    /\ LocksAtRest
    /\ \E s \in [DOMAIN AuxAtRest.Settings -> BOOLEAN] :
          /\ aux = [AuxAtRest EXCEPT !.Settings = s]
          /\ PROCESS_DATA = s.PROCESS_DATA

NextSettings ==
    \/ \E topic \in BASESTATION_CONFIG_PARAMS_LIST, value \in BOOLEAN :
          OnBasestationConfig(topic, value)
    \/ \E update_content \in 0..MaxConfig : OnSmartPatchConfig(update_content)

SpecSettings == InitSettings /\ [][NextSettings]_vars

\* C31: after a base-station config event the flag of Settings that belongs
\* to the topic of the event holds the value received.
C31_FlagFollowsEvent ==
    aux.console # <<>> => aux.Settings[SettingOf(aux.console[1])] = aux.console[2]

\* C32: a worker whose notifications are enabled (it has passed start_notify
\* and is in its streaming loop) is on a patch that is a key of
\* connected_devices, so every sample its callback appends is of a patch
\* published as connected.
C32_PublishedBeforeNotify ==
    \A w \in Workers : wpc[w] \in StreamingPcs => DHas(connected_devices, waddr[w])

(***************************************************************************)
(* ApiException in the mapping thread and in the sink.  Where the          *)
(* exception is raised is an input: inside the try block of                *)
(* get_patient_mapping, elsewhere inside the try block of                  *)
(* patient_mapping_loop, or inside the try block of publishing_loop.       *)
(***************************************************************************)
MaxApiErrors == 2

\* where the start-up of the mapping thread can raise ApiException
RaiseSites == {"none", "get_patient_mapping", "patient_mapping_loop"}

\* `except ApiException` of publishing_loop, inside the while loop
publishing_loop_catches(e) == e = "ApiException"

\* patient_mapping_loop up to get_updates.  Without an exception the roster
\* is fetched and seeded.  An ApiException inside get_patient_mapping's try
\* is logged there and the mapping fetched so far (none) is returned and
\* seeded.  An ApiException that reaches the handler of patient_mapping_loop
\* is logged; the function returns and get_updates is not called.
MapStart(site) ==
    /\ aux.map_pc = "start"
    /\ CASE site = "none" ->
              /\ patient_mapping' = Roster
              /\ mac_address_update' = SeedIntents(DKeyList(Roster), mac_address_update)
              /\ aux' = [aux EXCEPT !.map_pc = "listening"]
         [] site = "get_patient_mapping" ->
              /\ patient_mapping' = <<>>
              /\ UNCHANGED mac_address_update
              /\ aux' = [aux EXCEPT !.map_pc = "listening",
                                    !.api_log = Append(@, site)]
         [] site = "patient_mapping_loop" ->
              /\ UNCHANGED <<patient_mapping, mac_address_update>>
              /\ aux' = [aux EXCEPT !.map_pc = "ended",
                                    !.api_log = Append(@, site)]
    /\ lastStep' = NoStep
    /\ UNCHANGED <<bleVars, script, dataVars, lockVars>>

\* on_update, called by the client that get_updates subscribed
MapEvent ==
    /\ aux.map_pc = "listening"
    /\ script < MaxEvents
    /\ \/ \E p \in PatientIds, x \in MapPatchIds : OnConnected(p, x)
       \/ \E x \in MapPatchIds : OnDisconnected(x)
    /\ lastStep' = NoStep
    /\ script' = script + 1
    /\ UNCHANGED <<bleVars, dataVars, lockVars, aux>>

\* an exception e raised inside the for loop of publishing_loop: caught, it
\* is logged and the loop is over; uncaught, it ends the thread
PubRaise(e) ==
    /\ aux.sink_pc = "publish"
    /\ aux.sink_i <= Len(aux.local_data)
    /\ Len(aux.api_log) < MaxApiErrors
    /\ aux' = IF publishing_loop_catches(e)
              THEN [aux EXCEPT !.sink_pc = "check",
                               !.api_log = Append(@, "publishing_loop")]
              ELSE [aux EXCEPT !.sink_pc = "dead"]
    /\ UNCHANGED <<processed_data, delivered, handed, sinkRest>>

\* the threads have been created; nothing has been fetched yet
InitSoft ==
    /\ patient_mapping = <<>>
    /\ mac_address_update = <<>>
    /\ lastStep = NoStep
    /\ connected_devices \in Dicts(PatchIds, {FirmwareVersion})
    /\ wpc = [w \in Workers |-> "poll"]
    /\ waddr = [w \in Workers |-> "None"]
    /\ wlink = [w \in Workers |-> FALSE]
    /\ wremove = [w \in Workers |-> FALSE]
    /\ script = 0
    /\ DataAtRest
    /\ LocksAtRest
    /\ aux = [AuxAtRest EXCEPT !.map_pc = "start"]

NextSoft ==
    \/ \E site \in RaiseSites : MapStart(site)
    \/ MapEvent
    \/ \E address \in PatchIds : WriteBack(address)
    \/ PubCheck
    \/ PubSwap
    \/ PubPatch
    \/ PubRaise("ApiException")
    \/ PubDone

SpecSoft == InitSoft /\ [][NextSoft]_vars

\* C33: a stage that has logged an ApiException is still running: the mapping
\* thread is listening for events, the sink is in its loop.
C33_StageSurvives ==
    /\ (\E j \in DOMAIN aux.api_log :
            aux.api_log[j] \in {"get_patient_mapping", "patient_mapping_loop"})
          => aux.map_pc = "listening"
    /\ (\E j \in DOMAIN aux.api_log : aux.api_log[j] = "publishing_loop")
          => aux.sink_pc \in {"check", "swap", "publish"}

(***************************************************************************)
(* A patch that connects after the warm-up: its first batches hold a few   *)
(* seconds of samples, not the 30 s of the cold start.                     *)
(***************************************************************************)
SAMPLE_LENGTH == 2000

\* what a batch of a late patch adds: 3 s or 30 s of ppg rows, 1 s, 3 s or
\* 20 s of imu rows
LateBatches == [ppg : {300, 3000}, imu : {50, 150, 1000}, temp : {100}, voltage : {0, 100}]

NextLate ==
    \/ \E w \in Workers : Callback(w) /\ UNCHANGED dataRest
    \/ DspCheck /\ UNCHANGED dataRest
    \/ TickAcquire
    \/ \E batch \in LateBatches, signal_ok \in BOOLEAN : TickAddress(batch, signal_ok)
    \/ DspReset /\ UNCHANGED dataRest
    \/ SinkSwap /\ UNCHANGED dataRest

SpecLate == InitTick /\ [][NextLate]_vars

\* C34: a step of the tick that appends a Datapoint for a patch has run the
\* pipeline on a ppg window of that patch of at least SAMPLE_LENGTH rows.
C34_NoDatapointOnShortWindow ==
    [][(/\ Len(aux'.tick_log) = Len(aux.tick_log) + 1
        /\ aux'.tick_log[Len(aux'.tick_log)][2] = "trimmed") =>
            LET address == unprocessed_data[dsp_i][1]
            IN  \E batch \in LateBatches :
                    /\ Iteration(aux.windows[address], batch, TRUE).w = aux'.windows[address]
                    /\ split_data(aux.windows[address], batch).ppg >= SAMPLE_LENGTH]_vars

\* C35: the thread of data_processing never ends: whatever the pipeline of a
\* patch raises in a tick is caught inside the tick.
C35_DspKeepsTicking ==
    dsp_pc # "dead"

\* C36: the step that ends the disconnect flow of a worker leaves a Connect
\* intent for its patch in mac_address_update, if one was posted while the
\* flow was under way.
C36_ConnectIntentSurvivesFlow ==
    [][\A w \in Workers :
          (/\ wpc[w] = "closing"
           /\ wpc'[w] # "closing"
           /\ DHas(mac_address_update, waddr[w])
           /\ DGet(mac_address_update, waddr[w]) = "add")
              => /\ DHas(mac_address_update', waddr[w])
                 /\ DGet(mac_address_update', waddr[w]) = "add"]_vars

(***************************************************************************)
(* Scenario: Connected{P1, X1}, then Disconnected{_, X1} at any later      *)
(* moment, whatever the workers are doing, and nothing else from the       *)
(* control plane.  The event loop runs every task that is ready.           *)
(***************************************************************************)
LateDisconnected ==
    /\ script = 1
    /\ OnDisconnected("X1")
    /\ Observed("disconnect", "none", "X1")
    /\ script' = 2
    /\ UNCHANGED <<bleVars, dataVars, lockVars, aux>>

NextLeave ==
    \/ S1Connected
    \/ LateDisconnected
    \/ \E w \in Workers : WorkerStep(w) /\ UNCHANGED restVars
    \/ \E w \in Workers : LinkLost(w) /\ UNCHANGED restVars
    \/ Janitor /\ UNCHANGED restVars

FairLeave ==
    /\ InitS1
    /\ [][NextLeave]_vars
    /\ \A w \in Workers : WF_vars(WorkerStep(w) /\ UNCHANGED restVars)
    /\ WF_vars(Janitor /\ UNCHANGED restVars)

\* C37: once Disconnected{_, X1} has been handled, and no Connected event
\* follows, the system reaches a state from which on no worker is connecting
\* to X1 or streaming from it.
C37_StaysDisconnected ==
    (script = 2) ~> [](\A w \in Workers : ~Holds(w, "X1"))

\* C38: in pass-through mode the step that stores a batch in processed_data
\* loses none of the samples processed_data held and the sink has not yet
\* taken.
C38_NothingOverwritten ==
    [][(~PROCESS_DATA /\ dsp_pc = "store" /\ dsp_pc' = "check") =>
           SamplesIn(processed_data) \subseteq SamplesIn(processed_data')]_vars

\* C39: when a config byte is reset to 0 and no Disconnected event has been
\* issued (every worker stays Streaming), every worker has read that byte
\* and handed it to write_gatt_char before.
C39_PushedBeforeReset ==
    [][(/\ aux.smartpatch_config_update # 0
        /\ aux'.smartpatch_config_update = 0
        /\ \A x \in PatchIds : aux.age[x] < 0) =>
            \A w \in Workers :
                /\ aux.new_config[w] = aux.smartpatch_config_update
                /\ aux.cfg_pc[w] # "write"]_vars

(***************************************************************************)
(* Start-up (Basestation.main).  main creates the five threads, starts the *)
(* mapping thread and then waits on each mailbox in turn before it starts  *)
(* the next stage.  A stage runs only once its thread has been started.    *)
(* During start-up the control plane sends no event and the radio links    *)
(* hold.                                                                   *)
(***************************************************************************)
\* the mutated wait: main does not look at the mailbox
main_may_pass_unchecked(mailbox) == TRUE

\* `while not Globals.<mailbox>: sleep(Settings.INITIALIZATION_DELAY)` is left
main_may_pass(mailbox) == mailbox # <<>>

\* Mapping_Thread.start()
MainStartMapping ==
    /\ aux.main_pc = "start_mapping"
    /\ aux' = [aux EXCEPT !.started = @ \cup {"Mapping_Thread"},
                          !.main_pc = "wait_patient_mapping"]
    /\ UNCHANGED coreVars

\* the wait on patient_mapping is over: BLE_Thread.start()
MainStartBle ==
    /\ aux.main_pc = "wait_patient_mapping"
    /\ main_may_pass(patient_mapping)
    /\ aux' = [aux EXCEPT !.started = @ \cup {"BLE_Thread"},
                          !.main_pc = "wait_unprocessed_data"]
    /\ UNCHANGED coreVars

\* the wait on unprocessed_data is over: Processing_Thread.start()
MainStartProcessing ==
    /\ aux.main_pc = "wait_unprocessed_data"
    /\ main_may_pass(unprocessed_data)
    /\ aux' = [aux EXCEPT !.started = @ \cup {"Processing_Thread"},
                          !.main_pc = "wait_processed_data"]
    /\ UNCHANGED coreVars

\* the wait on processed_data is over: Raw_Data_Thread.start() if
\* Settings.SAVE_RAW_DATA, and Publishing_Thread.start()
MainStartSinks ==
    /\ aux.main_pc = "wait_processed_data"
    /\ main_may_pass(processed_data)
    /\ aux' = [aux EXCEPT
                 !.started = @ \cup {"Publishing_Thread"} \cup
                                (IF aux.Settings.SAVE_RAW_DATA
                                 THEN {"Raw_Data_Thread"} ELSE {}),
                 !.main_pc = "done"]
    /\ UNCHANGED coreVars

\* the threads exist, none is started; the flags are as configure_basestation
\* left them
InitMain ==
    /\ patient_mapping = <<>>
    /\ mac_address_update = <<>>
    /\ lastStep = NoStep
    /\ connected_devices = <<>>
    /\ wpc = [w \in Workers |-> "poll"]
    /\ waddr = [w \in Workers |-> "None"]
    /\ wlink = [w \in Workers |-> FALSE]
    /\ wremove = [w \in Workers |-> FALSE]
    /\ script = 0
    /\ unprocessed_data = <<>>
    /\ processed_data = <<>>
    /\ unprocessed_data_lock = "none"
    /\ dsp_pc = "check"
    /\ dsp_i = 1
    /\ current_data = <<>>
    /\ delivered = 0
    /\ handed = [s \in 1..MaxSamples |-> 0]
    /\ released = [valid |-> FALSE, ud |-> <<>>]
    /\ LocksAtRest
    /\ \E process, raw \in BOOLEAN :
          /\ PROCESS_DATA = process
          /\ aux = [AuxAtRest EXCEPT !.Settings.PROCESS_DATA = process,
                                     !.Settings.SAVE_RAW_DATA = raw,
                                     !.map_pc = "start",
                                     !.main_pc = "start_mapping",
                                     !.started = {}]

NextMain ==
    \/ MainStartMapping
    \/ MainStartBle
    \/ MainStartProcessing
    \/ MainStartSinks
    \/ /\ "Mapping_Thread" \in aux.started
       /\ \E site \in RaiseSites : MapStart(site)
    \/ /\ "BLE_Thread" \in aux.started
       /\ \/ \E w \in Workers : WorkerStep(w) /\ UNCHANGED restVars
          \/ \E w \in Workers : Callback(w) /\ UNCHANGED dataRest
    \/ /\ "Processing_Thread" \in aux.started
       /\ \/ DspCheck /\ UNCHANGED dataRest
          \/ DspAcquire /\ UNCHANGED dataRest
          \/ \E e \in PipelineOutcomes : DspAddress(e) /\ UNCHANGED dataRest
          \/ DspReset /\ UNCHANGED dataRest
          \/ DspSwap /\ UNCHANGED dataRest
          \/ DspStore /\ UNCHANGED dataRest
    \/ /\ "Publishing_Thread" \in aux.started
       /\ SinkSwap /\ UNCHANGED dataRest

SpecMain == InitMain /\ [][NextMain]_vars

\* C40: the BLE thread is started in a step that finds patient_mapping
\* non-empty, the DSP thread in a step that finds unprocessed_data non-empty,
\* the raw-sink and sink threads in a step that finds processed_data
\* non-empty; and a stage is started only after every stage before it.
C40_StartupOrdered ==
    [][/\ "BLE_Thread" \in aux'.started \ aux.started => patient_mapping # <<>>
       /\ "Processing_Thread" \in aux'.started \ aux.started => unprocessed_data # <<>>
       /\ (aux'.started \ aux.started) \cap {"Publishing_Thread", "Raw_Data_Thread"} # {}
             => processed_data # <<>>
       /\ "BLE_Thread" \in aux'.started => "Mapping_Thread" \in aux'.started
       /\ "Processing_Thread" \in aux'.started => "BLE_Thread" \in aux'.started
       /\ aux'.started \cap {"Publishing_Thread", "Raw_Data_Thread"} # {}
             => "Processing_Thread" \in aux'.started]_vars

\* every stage has been started, the raw sink included
C40_Witness ==
    /\ aux.main_pc = "done"
    /\ aux.started = Threads
====
